---- MODULE Spec2Model ----
(***************************************************************************)
(* A model of the crawler engine (crawlerlib/engine.py) together with the  *)
(* SQLite store and the JSONL sink (crawlerlib/storage.py) and the Bloom   *)
(* filter (crawlerlib/bloom_filter.py).                                    *)
(*                                                                         *)
(* One behaviour is a sequence of runs of the program against the same     *)
(* database and output files.  A run is the construction of a Crawler      *)
(* (Crawler.__init__), then the worker threads of Crawler.run, each        *)
(* stepping through Crawler.worker; one model step is one access to shared *)
(* state (one critical section of a lock, one queue operation, one store   *)
(* statement).  A run ends when every worker has returned, or when the     *)
(* process is killed; the tables and the files survive, the memory of the  *)
(* process does not.                                                       *)
(***************************************************************************)
EXTENDS Integers, Sequences, FiniteSets, TLC

\* ------------------------------------------------------------------ bounds

\* Runs of the program in one behaviour.
MaxRuns == 2
\* Fetches that return None (network failure) in one behaviour.
MaxFailures == 1

\* ------------------------------------------------------------- the web site

\* Thread ids of the worker pool; config.concurrency of them are started.
Workers == {1, 2}

\* The URLs of the model: a, b, c are pages of example.com, x is a page of
\* evil.com, "" is an empty start URL.
URLs == {"a", "b", "c", "x"}

\* urlparse(url).netloc, as a sequence of labels.
netloc(url) == IF url = "x" THEN <<"evil", "com">> ELSE <<"example", "com">>

\* What the HTTP server answers: the links Extractor.extract finds in a page,
\* or would find in the body of b were it given to it.
SiteLinks(url) ==
    CASE url = "a" -> <<"b", "c">>
      [] url = "c" -> <<"b", "x">>
      [] url = "b" -> <<"c">>
      [] OTHER -> <<>>

\* Whether the response is non-empty text/html (b is a PDF).
SiteIsHtml(url) == url # "b"

\* Extractor.extract: the fields it takes from a page (every page of the site
\* has a title, a description and text).
Extract(url) ==
    [url |-> url, title |-> "T", description |-> "D", text |-> "X",
     num_links |-> Len(SiteLinks(url))]

\* The record Crawler.worker builds from a response: the extracted fields of
\* non-empty text/html, empty fields otherwise.
record_of(url) ==
    IF SiteIsHtml(url) THEN Extract(url)
    ELSE [url |-> url, title |-> "", description |-> "", text |-> "",
          num_links |-> 0]

\* The URLs robots.txt of example.com disallows, when it can be fetched.
RobotsDisallow == {"c"}

\* ------------------------------------------------------------ pure helpers

Range(s) == {s[i] : i \in DOMAIN s}

\* str.endswith("." + d) on hosts given as label sequences.
EndsWithDot(host, d) ==
    /\ Len(host) > Len(d)
    /\ SubSeq(host, Len(host) - Len(d) + 1, Len(host)) = d

\* `not allowed_domains or any(host == d or host.endswith("." + d) ...)` for
\* host, the lowercased netloc, given as its labels.
is_allowed_netloc(host, allowed_domains) ==
    \/ allowed_domains = <<>>
    \/ \E i \in DOMAIN allowed_domains :
          \/ host = allowed_domains[i]
          \/ EndsWithDot(host, allowed_domains[i])

\* UrlTools.is_allowed_domain on the URLs of the site, whose netloc is a
\* lowercase host name.
is_allowed_domain(url, allowed_domains) ==
    is_allowed_netloc(netloc(url), allowed_domains)

\* A URL as urlparse splits its authority: userinfo ("" when absent), the
\* labels of the host name, port ("" when absent).
UrlForms ==
    [userinfo : {"", "u"},
     host : {<<"example", "com">>, <<"sub", "example", "com">>,
             <<"Sub", "EXAMPLE", "com">>, <<"EXAMPLE", "COM">>,
             <<"notexample", "com">>, <<"evil", "com">>},
     port : {"", "8080"}]

\* str.lower on a label.
lower(label) ==
    CASE label = "EXAMPLE" -> "example"
      [] label = "COM" -> "com"
      [] label = "Sub" -> "sub"
      [] OTHER -> label

\* urlparse(url).hostname: the host name, lowercased, without userinfo and port.
urlparse_hostname(form) == [i \in DOMAIN form.host |-> lower(form.host[i])]

\* urlparse(url).netloc.lower(), as the labels between its dots: the userinfo
\* and "@" stay in front of the first label, ":" and the port after the last.
urlparse_netloc_lower(form) ==
    LET h == urlparse_hostname(form)
        n == Len(h)
    IN  [i \in 1 .. n |->
            (IF i = 1 /\ form.userinfo # "" THEN form.userinfo \o "@" ELSE "")
            \o h[i]
            \o (IF i = n /\ form.port # "" THEN ":" \o form.port ELSE "")]

\* The allowed_domains lists tried (lowercase, without a leading dot, as
\* Crawler.__init__ leaves them).
AllowedLists ==
    {<<>>, <<<<"example", "com">>>>, <<<<"evil", "com">>>>,
     <<<<"evil", "com">>, <<"example", "com">>>>,
     <<<<"sub", "example", "com">>>>}

\* UrlTools.normalize_start: empty inputs are dropped, order and duplicates kept.
normalize_start(urls) == SelectSeq(urls, LAMBDA u : u # "")

\* ------------------------------------------------------------ Bloom filter

\* calculate_optimal_params(n, 0.001): m = ceil(n * 14.37759), k = ceil(9.966).
BloomM(n) == (n * 1437759 + 99999) \div 100000
BloomK == 10

\* mmh3.hash(x, 0) and mmh3.hash(x, h1) of the model's URLs (32-bit values);
\* a and c collide on every probe for the filter sizes of the model.
Hash1(x) == CASE x = "a" -> 7 [] x = "b" -> 3 [] x = "c" -> 19147 [] OTHER -> 11
Hash2(x) == CASE x = "a" -> 19140 [] x = "b" -> 5 [] x = "c" -> 38280 [] OTHER -> 2

\* BloomFilter._hash_all: the k probe positions (h1 + i*h2) % m.
hash_all(x, m) == {(Hash1(x) + i * Hash2(x)) % m : i \in 0 .. (BloomK - 1)}

\* self._bloom is None
NoBloom == [on |-> FALSE, m |-> 0, bits |-> {}, n_added |-> 0]

create_bloom_filter(expected_urls) ==
    [on |-> TRUE, m |-> BloomM(expected_urls), bits |-> {}, n_added |-> 0]

\* `=` where add has `|=`: the bits of the earlier items are lost.
bloom_add_overwrite(b, x) == [b EXCEPT !.bits = hash_all(x, b.m)]

\* BloomFilter.add: every probe position is set, and n_added counts the call.
bloom_add(b, x) ==
    [b EXCEPT !.bits = @ \cup hash_all(x, b.m), !.n_added = @ + 1]

\* An add_batch that counts the distinct items of the batch.
bloom_add_batch_distinct(b, items) ==
    [b EXCEPT !.bits = @ \cup UNION {hash_all(items[i], b.m) : i \in DOMAIN items},
              !.n_added = @ + Cardinality(Range(items))]

\* BloomFilter.add_batch: the probe positions of every item are set, and
\* n_added grows by len(items).
bloom_add_batch(b, items) ==
    [b EXCEPT !.bits = @ \cup UNION {hash_all(items[i], b.m) : i \in DOMAIN items},
              !.n_added = @ + Len(items)]

\* BloomFilter.contains: every probe position is set.
bloom_contains(b, x) == hash_all(x, b.m) \subseteq b.bits

\* BloomFilter.contains_batch: one answer per item, FALSE at the first probe
\* position of the item that is not set.
bloom_contains_batch(b, items) ==
    [i \in DOMAIN items |->
        ~ \E pos \in hash_all(items[i], b.m) : pos \notin b.bits]

\* ------------------------------------------------------------- SqliteStore
\* A table is a set of rows; a pages row is <<url, depth>>, a frontier row is
\* <<url, depth>>, a links row is <<from_url, to_url>>.

RowUrls(tbl) == {r[1] : r \in tbl}

\* SELECT 1 FROM pages WHERE url = ?
has_page(pgs, url) == \E r \in pgs : r[1] = url

\* A query that looks at the frontier table only.
seen_url_frontier_only(pgs, ftbl, url) == \E r \in ftbl : r[1] = url

\* pages first, then frontier
seen_url(pgs, ftbl, url) ==
    \/ \E r \in pgs : r[1] = url
    \/ \E r \in ftbl : r[1] = url

\* INSERT OR REPLACE INTO frontier: the row takes the new depth.
mark_enqueued_replace(ftbl, url, depth) ==
    [tbl |-> {r \in ftbl : r[1] # url} \cup {<<url, depth>>}, ok |-> TRUE]

\* INSERT OR IGNORE INTO frontier; the result is changes() > 0.
mark_enqueued(ftbl, url, depth) ==
    IF \E r \in ftbl : r[1] = url
    THEN [tbl |-> ftbl, ok |-> FALSE]
    ELSE [tbl |-> ftbl \cup {<<url, depth>>}, ok |-> TRUE]

\* DELETE FROM frontier WHERE url = ?
dequeue(ftbl, url) == {r \in ftbl : r[1] # url}

\* INSERT OR IGNORE INTO pages: the first row of a URL stays.
save_page_ignore(pgs, url, depth) ==
    IF \E r \in pgs : r[1] = url THEN pgs ELSE pgs \cup {<<url, depth>>}

\* INSERT OR REPLACE INTO pages
save_page(pgs, url, depth) == {r \in pgs : r[1] # url} \cup {<<url, depth>>}

\* INSERT OR IGNORE INTO links, nothing when there are no rows
add_links(ltbl, from_url, to_urls) ==
    ltbl \cup {<<from_url, to_urls[i]>> : i \in DOMAIN to_urls}

RECURSIVE Perms(_)
Perms(S) ==
    IF S = {} THEN {<<>>}
    ELSE UNION {{<<x>> \o p : p \in Perms(S \ {x})} : x \in S}

\* SqliteStore.iter_pages_urls: the URL of every pages row, in the order the
\* table gives them.
iter_pages_urls(pgs) == CHOOSE s \in Perms(RowUrls(pgs)) : TRUE

\* A load_frontier that finds no row.
load_frontier_nothing(ftbl) == {<<>>}

\* SELECT url, depth FROM frontier ORDER BY depth ASC: every order of the rows
\* with non-decreasing depth (the order of rows of equal depth is not fixed).
load_frontier(ftbl) ==
    {s \in Perms(ftbl) : \A i \in 1 .. (Len(s) - 1) : s[i][2] <= s[i + 1][2]}

\* ---------------------------------------------------------------- JSONL sink

Paths == {"o1", "o2"}

NoFiles == [p \in Paths |-> [exists |-> FALSE, lines |-> <<>>]]

\* A writer that opens its file with mode "w" whatever append says.
JsonlWriterTruncating(fs, path, append) ==
    [fs EXCEPT ![path] = [exists |-> TRUE, lines |-> <<>>]]

\* JsonlWriter.__init__: mode "a" keeps the lines, mode "w" truncates.
JsonlWriter(fs, path, append) ==
    [fs EXCEPT ![path] = [exists |-> TRUE,
                          lines |-> IF append THEN fs[path].lines ELSE <<>>]]

\* JsonlWriter.write: one line per record, flushed.
writer_write(fs, path, record) == [fs EXCEPT ![path].lines = Append(@, record)]

\* ------------------------------------------------------------------ configs

ExampleCom == <<"example", "com">>

Config(starts, mp, conc, robots, out, sqlite, res) ==
    [start_urls |-> starts, allowed_domains |-> <<ExampleCom>>,
     max_pages |-> mp, max_depth |-> 2, concurrency |-> conc,
     obey_robots_txt |-> robots, output_path |-> out,
     sqlite_path |-> sqlite, resume |-> res]

\* The configurations of the first run of a behaviour.
FirstConfigs ==
    { Config(<<"a", "", "a", "x">>, 2, 2, FALSE, "o1", TRUE, FALSE),
      Config(<<"x", "a">>, 3, 1, TRUE, "o1", TRUE, FALSE),
      Config(<<"a">>, 2, 2, FALSE, "o1", FALSE, FALSE) }

\* The configurations of the later runs; the last one resumes with a smaller
\* max_depth than the run before it.
LaterConfigs ==
    { Config(<<"a", "c">>, 3, 1, FALSE, "o1", TRUE, TRUE),
      Config(<<"a">>, 2, 1, FALSE, "o2", TRUE, FALSE),
      [Config(<<"a">>, 3, 1, FALSE, "o1", TRUE, TRUE) EXCEPT !.max_depth = 0] }

\* -------------------------------------------------------------------- state

VARIABLES
    \* the database and the files: they survive the process
    pages,          \* table pages
    frontier_tbl,   \* table frontier
    links_tbl,      \* table links
    files,          \* the JSONL files, by path
    \* the run
    run,            \* number of the current run
    phase,          \* "running", "returned" (run() returned) or "killed"
    config,         \* the CrawlConfig of the current run
    \* the Crawler object
    frontier,       \* self.frontier, the queue of <<url, depth>>
    visited,        \* self.visited
    bloom,          \* self._bloom
    pages_crawled,  \* self.pages_crawled
    robots_cache,   \* self.robots._cache, by netloc
    \* the worker threads
    pc,             \* where each worker is in Crawler.worker
    cur,            \* the <<url, depth>> a worker took from the queue
    todo,           \* the links a worker has still to enqueue
    hit,            \* whether the Bloom filter reported the worker's URL present
    outcome,        \* how the worker's last iteration ended
    ops,            \* the store writes of the worker in this iteration
    \* the environment
    failures,       \* fetches that returned None so far
    \* history, read by the properties only
    admits,         \* per URL, _should_visit returning True in this run (up to 2)
    fetches,        \* per URL, http.fetch calls in this run (up to 2)
    ended,          \* the <<url, outcome>> of the iterations that ended in this run
    pages0,         \* URLs with a pages row when this run started
    lines0,         \* lines of the output file when this run started
    resumed,        \* whether this run took the resume path
    prevEnd,        \* how the previous run ended: "none", "returned", "killed"
    clean,          \* no run was killed, and every run after the first resumed
    allStore,       \* every run so far had a store configured
    priorStored,    \* URLs admitted and stored as a page in an earlier run
    saves,          \* store.save_page calls in this run
    passed,         \* per worker, what its URL has passed in this iteration
    pending0,       \* URLs the previous run enqueued and did not fetch
    prevCapped,     \* whether the previous run returned with the page cap reached
    \* the rate limiter, the store and the Bloom filter driven on their own
    now,            \* the clock, self._now()
    host_next_time, \* RateLimiter._host_next_time, by netloc (0.0 when absent)
    sleep_until,    \* per worker, when the sleep of its wait_turn returns
    rate_calls,     \* per netloc, the times of the wait_turn calls so far
    fetch_times,    \* per netloc, the start times of the fetches so far
    call,           \* the last call of a store method: its arguments, the depth
                    \* of the row it found for its URL (-1: none), its result
    last_save,      \* per URL, the depth of the most recent save_page (-1: none)
    added,          \* what was added to the Bloom filter since it was created
    \* the locks, the sink and the pure functions driven on their own
    held,           \* per thread, the locks it holds
    sink,           \* the JsonlWriter: its handle and the write calls so far
    probe,          \* the last application of a pure function and its result
    metrics         \* self.metrics: its totals, and the calls made on it

persistent == <<pages, frontier_tbl, links_tbl, files>>
runvars == <<run, phase, config>>
memory == <<frontier, visited, bloom, pages_crawled, robots_cache>>
locals == <<cur, todo, hit, ops>>
control == <<pc, outcome, ended>>
history == <<pages0, lines0, resumed, prevEnd, clean, allStore, priorStored,
             pending0, prevCapped>>
aux == <<held, sink, probe, metrics>>
bench == <<now, host_next_time, sleep_until, rate_calls, fetch_times, call,
           last_save, added, aux>>
ghosts == <<admits, fetches, saves, passed, history, bench>>
vars == <<persistent, runvars, memory, locals, control, failures, ghosts>>

Netlocs == {netloc(u) : u \in URLs}
NoEntry == <<"", 0>>
\* Nothing passed yet: robots.txt, the visited-gate, the host given to wait_turn.
NoChecks == [robots |-> FALSE, gate |-> FALSE, host |-> <<>>]
NoSink == [path |-> "", append |-> FALSE, prev |-> <<>>, start |-> <<>>,
           closed |-> TRUE, written |-> <<>>, by |-> {}, closes |-> 0,
           at_close |-> <<>>]
NoProbe == [fn |-> "none"]
NoSnapshot == [pages |-> -1]
\* Metrics(): the totals are zero; no call was made (log: the arguments of the
\* record_fetch calls so far, applied: the calls whose block has run, id: the
\* call each thread is in, snap: the last snapshot each thread was given and
\* the calls that were applied when it was taken).
FreshMetrics ==
    [totals |-> [pages |-> 0, bytes |-> 0, errors |-> 0, fetch_ms_sum |-> 0],
     log |-> <<>>, applied |-> {},
     id |-> [w \in Workers |-> 0],
     snap |-> [w \in Workers |-> NoSnapshot],
     snap_applied |-> [w \in Workers |-> {}]]
NoCall == [op |-> "none", url |-> "", depth |-> 0, old |-> -1, ret |-> FALSE]

Max(a, b) == IF a > b THEN a ELSE b
Bump(f, u) == [f EXCEPT ![u] = IF @ < 2 THEN @ + 1 ELSE @]

\* --------------------------------------------------- RateLimiter.wait_turn

\* A limiter with one next_allowed time shared by all hosts.
wait_turn_shared(hnt, t, host, delay) ==
    LET next_allowed == hnt[CHOOSE g \in DOMAIN hnt :
                                \A f \in DOMAIN hnt : hnt[g] >= hnt[f]]
    IN  [next |-> [g \in DOMAIN hnt |-> Max(next_allowed, t) + delay],
         sleep_for |-> IF next_allowed > t THEN next_allowed - t ELSE 0]

\* A limiter that writes now + delay back, whatever next_allowed was.
wait_turn_from_now(hnt, t, host, delay) ==
    IF delay <= 0
    THEN [next |-> hnt, sleep_for |-> 0]
    ELSE LET next_allowed == hnt[host]
         IN  [next |-> [hnt EXCEPT ![host] = t + delay],
              sleep_for |-> IF next_allowed > t THEN next_allowed - t ELSE 0]

\* The locked block of RateLimiter.wait_turn at time t: the table afterwards and
\* the sleep that follows; with delay_seconds <= 0 the method returns at once.
wait_turn(hnt, t, host, delay) ==
    IF delay <= 0
    THEN [next |-> hnt, sleep_for |-> 0]
    ELSE LET next_allowed == hnt[host]
         IN  [next |-> [hnt EXCEPT ![host] = Max(next_allowed, t) + delay],
              sleep_for |-> IF next_allowed > t THEN next_allowed - t ELSE 0]

\* ----------------------------------------------------------- Crawler.__init__

\* self._persist_enqueue over the start URLs, in order (the queue put does not
\* depend on its result).
RECURSIVE persist_starts(_, _)
persist_starts(ftbl, starts) ==
    IF starts = <<>> THEN ftbl
    ELSE persist_starts(mark_enqueued(ftbl, Head(starts), 0).tbl, Tail(starts))

StartEntries(starts) == [i \in DOMAIN starts |-> <<starts[i], 0>>]

\* should_resume
should_resume(c, fs) ==
    c.sqlite_path /\ (c.resume \/ fs[c.output_path].exists)

\* A construction that, on the resume path, enqueues and persists the start
\* URLs after the restored entries.
ConstructWithStarts(c, pgs, ftbl, fs) ==
    LET resume_from_output == fs[c.output_path].exists
        starts == normalize_start(c.start_urls)
        writer == JsonlWriter(fs, c.output_path, c.resume \/ resume_from_output)
    IN  IF should_resume(c, fs)
        THEN { [files |-> writer,
                bloom |-> bloom_add_batch(
                              create_bloom_filter(Max(c.max_pages, 1)),
                              iter_pages_urls(pgs)),
                frontier |-> restored \o StartEntries(starts),
                frontier_tbl |-> persist_starts(ftbl, starts)]
               : restored \in load_frontier(ftbl) }
        ELSE { [files |-> writer,
                bloom |-> NoBloom,
                frontier |-> StartEntries(starts),
                frontier_tbl |-> IF c.sqlite_path THEN persist_starts(ftbl, starts)
                                 ELSE ftbl] }

\* The Crawler objects construction can produce from configuration c, the
\* tables pgs and ftbl and the files fs.
Construct(c, pgs, ftbl, fs) ==
    LET resume_from_output == fs[c.output_path].exists
        starts == normalize_start(c.start_urls)
        writer == JsonlWriter(fs, c.output_path, c.resume \/ resume_from_output)
    IN  IF should_resume(c, fs)
        THEN { [files |-> writer,
                bloom |-> bloom_add_batch(
                              create_bloom_filter(Max(c.max_pages, 1)),
                              iter_pages_urls(pgs)),
                frontier |-> IF restored # <<>> THEN restored ELSE StartEntries(starts),
                frontier_tbl |-> IF restored # <<>> THEN ftbl
                                 ELSE persist_starts(ftbl, starts)]
               : restored \in load_frontier(ftbl) }
        ELSE { [files |-> writer,
                bloom |-> NoBloom,
                frontier |-> StartEntries(starts),
                frontier_tbl |-> IF c.sqlite_path THEN persist_starts(ftbl, starts)
                                 ELSE ftbl] }

\* The URLs the run has put on the frontier and not fetched: those still
\* queued, and those a worker took before it returned on the cap re-check.
Pending ==
    {u \in {frontier[i][1] : i \in DOMAIN frontier}
            \cup {cur[w][1] : w \in {v \in Workers : outcome[v] = "capped"}} :
        fetches[u] = 0}

\* The rate limiter of a configuration with delay_seconds = 0 (wait_turn returns
\* at once), no store call and no Bloom filter observed yet.
RateIdle ==
    /\ now = 0
    /\ host_next_time = [n \in Netlocs |-> 0]
    /\ sleep_until = [w \in Workers |-> 0]
    /\ rate_calls = [n \in Netlocs |-> <<>>]
    /\ fetch_times = [n \in Netlocs |-> <<>>]
    /\ call = NoCall
    /\ last_save = [u \in URLs |-> -1]
    /\ added = {}

\* The same, with no lock held, no writer on its own and no function applied.
BenchIdle ==
    /\ RateIdle
    /\ held = [w \in Workers |-> {}]
    /\ sink = NoSink
    /\ probe = NoProbe
    /\ metrics = FreshMetrics

\* The state of a fresh Crawler and of its thread pool.
Fresh(c, obj) ==
    /\ config = c
    /\ files = obj.files
    /\ frontier_tbl = obj.frontier_tbl
    /\ frontier = obj.frontier
    /\ bloom = obj.bloom
    /\ visited = {}
    /\ pages_crawled = 0
    /\ robots_cache = [n \in Netlocs |-> "unset"]
    /\ pc = [w \in Workers |-> IF w <= c.concurrency THEN "loop" ELSE "done"]
    /\ cur = [w \in Workers |-> NoEntry]
    /\ todo = [w \in Workers |-> <<>>]
    /\ hit = [w \in Workers |-> FALSE]
    /\ outcome = [w \in Workers |-> "none"]
    /\ ops = [w \in Workers |-> {}]
    /\ admits = [u \in URLs |-> 0]
    /\ fetches = [u \in URLs |-> 0]
    /\ passed = [w \in Workers |-> NoChecks]
    /\ ended = {}

Init ==
    /\ pages = {}
    /\ links_tbl = {}
    /\ run = 1
    /\ phase = "running"
    /\ failures = 0
    /\ pages0 = {}
    /\ lines0 = 0
    /\ resumed = FALSE
    /\ prevEnd = "none"
    /\ clean = TRUE
    /\ priorStored = {}
    /\ saves = 0
    /\ pending0 = {}
    /\ prevCapped = FALSE
    /\ BenchIdle
    /\ \E c \in FirstConfigs :
          /\ allStore = c.sqlite_path
          /\ \E obj \in Construct(c, {}, {}, NoFiles) : Fresh(c, obj)

\* ------------------------------------------------------------ Crawler.worker

Running(w, at) == phase = "running" /\ pc[w] = at

url_of(w) == cur[w][1]
depth_of(w) == cur[w][2]

\* The worker goes on to the step `at` of its iteration.
Goto(w, at) ==
    /\ pc' = [pc EXCEPT ![w] = at]
    /\ UNCHANGED <<outcome, ended>>

\* The iteration ends with outcome o: `self.frontier.task_done()` and back to
\* the head of the loop.
End(w, o) ==
    /\ pc' = [pc EXCEPT ![w] = "loop"]
    /\ outcome' = [outcome EXCEPT ![w] = o]
    /\ ended' = ended \cup {<<url_of(w), o>>}

\* A cap test that always passes.
within_limit_ignored == TRUE

\* Crawler._within_limit
within_limit == pages_crawled < config.max_pages

\* `while self._within_limit():`
WorkerLoop(w) ==
    /\ Running(w, "loop")
    /\ Goto(w, IF within_limit THEN "get" ELSE "done")
    /\ UNCHANGED <<persistent, runvars, memory, locals, failures, ghosts>>

\* `self.frontier.get()` without a timeout: the worker waits for an entry.
WorkerGetBlocking(w) ==
    /\ Running(w, "get")
    /\ frontier # <<>>
    /\ cur' = [cur EXCEPT ![w] = Head(frontier)]
    /\ frontier' = Tail(frontier)
    /\ hit' = [hit EXCEPT ![w] = FALSE]
    /\ ops' = [ops EXCEPT ![w] = {}]
    /\ pc' = [pc EXCEPT ![w] = "recheck"]
    /\ outcome' = [outcome EXCEPT ![w] = "none"]
    /\ passed' = [passed EXCEPT ![w] = NoChecks]
    /\ UNCHANGED <<persistent, runvars, visited, bloom, pages_crawled, robots_cache,
                   todo, ended, failures, admits, fetches, saves, history, bench>>

\* `self.frontier.get(timeout=0.5)`: the head of the queue, or queue.Empty when
\* the queue stays empty, which ends the worker.
WorkerGet(w) ==
    /\ Running(w, "get")
    /\ IF frontier # <<>>
       THEN /\ cur' = [cur EXCEPT ![w] = Head(frontier)]
            /\ frontier' = Tail(frontier)
            /\ hit' = [hit EXCEPT ![w] = FALSE]
            /\ ops' = [ops EXCEPT ![w] = {}]
            /\ pc' = [pc EXCEPT ![w] = "recheck"]
            /\ outcome' = [outcome EXCEPT ![w] = "none"]
            /\ passed' = [passed EXCEPT ![w] = NoChecks]
       ELSE /\ pc' = [pc EXCEPT ![w] = "done"]
            /\ UNCHANGED <<cur, frontier, hit, ops, outcome, passed>>
    /\ UNCHANGED <<persistent, runvars, visited, bloom, pages_crawled, robots_cache,
                   todo, ended, failures, admits, fetches, saves, history, bench>>

\* The second `self._within_limit()`: past the cap the worker returns; with
\* robots.txt ignored it goes on to the visited-gate.
WorkerRecheck(w) ==
    /\ Running(w, "recheck")
    /\ IF within_limit
       THEN Goto(w, IF config.obey_robots_txt THEN "robots" ELSE "gate")
       ELSE /\ pc' = [pc EXCEPT ![w] = "done"]
            /\ outcome' = [outcome EXCEPT ![w] = "capped"]
            /\ UNCHANGED ended
    /\ UNCHANGED <<persistent, runvars, memory, locals, failures, ghosts>>

\* RobotFileParser.can_fetch under the cached policy rp (None allows all).
rp_can_fetch(rp, url) == rp = "none" \/ url \notin RobotsDisallow

\* A worker that goes on to the visited-gate whatever robots.txt says.
AfterRobotsIgnoring(w, allowed) ==
    Goto(w, "gate") /\ UNCHANGED passed

\* The worker once robots.txt has decided its URL: on to the visited-gate, or
\* `task_done()` and, with a store, `self.store.dequeue(url)`.
AfterRobots(w, allowed) ==
    IF allowed
    THEN Goto(w, "gate") /\ passed' = [passed EXCEPT ![w].robots = TRUE]
    ELSE /\ IF config.sqlite_path THEN Goto(w, "robots_deq")
            ELSE End(w, "disallowed")
         /\ UNCHANGED passed

\* RobotsCache.can_fetch: a cached policy decides; without one robots.txt is
\* requested first.
WorkerRobots(w) ==
    /\ Running(w, "robots")
    /\ LET rp == robots_cache[netloc(url_of(w))]
       IN  IF rp = "unset"
           THEN Goto(w, "robots_fetch") /\ UNCHANGED passed
           ELSE AfterRobots(w, rp_can_fetch(rp, url_of(w)))
    /\ UNCHANGED <<persistent, runvars, memory, locals, failures, admits, fetches,
                   saves, history, bench>>

\* RobotsCache._fetch_robots returns, and its result is cached: a parsed
\* robots.txt, or None when the request failed or answered 400 or more.
WorkerRobotsFetch(w) ==
    /\ Running(w, "robots_fetch")
    /\ \E rp \in {"none", "rules"} :
          /\ robots_cache' = [robots_cache EXCEPT ![netloc(url_of(w))] = rp]
          /\ AfterRobots(w, rp_can_fetch(rp, url_of(w)))
    /\ UNCHANGED <<persistent, runvars, frontier, visited, bloom, pages_crawled,
                   locals, failures, admits, fetches, saves, history, bench>>

\* `self.store.dequeue(url)` of a URL robots.txt disallows.
WorkerRobotsDequeue(w) ==
    /\ Running(w, "robots_deq")
    /\ frontier_tbl' = dequeue(frontier_tbl, url_of(w))
    /\ ops' = [ops EXCEPT ![w] = @ \cup {"dequeue"}]
    /\ End(w, "disallowed")
    /\ UNCHANGED <<pages, links_tbl, files, runvars, memory, cur, todo, hit, failures, ghosts>>

\* ---------------------------------------------------- Crawler._should_visit

\* _should_visit returns True: the worker goes on to fetch.
Admit(w) ==
    /\ Goto(w, "turn")
    /\ admits' = Bump(admits, url_of(w))
    /\ passed' = [passed EXCEPT ![w].gate = TRUE]

\* _should_visit returns False: `self.frontier.task_done(); continue`.
Reject(w) ==
    /\ End(w, "rejected")
    /\ UNCHANGED <<admits, passed>>

\* A fast path that trusts the filter: a URL it contains is rejected without
\* asking the store.
BloomFastPathTrusting(w) ==
    IF ~bloom_contains(bloom, url_of(w))
    THEN /\ bloom' = bloom_add(bloom, url_of(w))
         /\ Admit(w)
         /\ UNCHANGED hit
    ELSE /\ Reject(w)
         /\ hit' = [hit EXCEPT ![w] = TRUE]
         /\ UNCHANGED bloom

\* `with self.visited_lock:` of the Bloom fast path: a URL the filter does not
\* contain is added and admitted, any other goes on to has_page.
BloomFastPath(w) ==
    IF ~bloom_contains(bloom, url_of(w))
    THEN /\ bloom' = bloom_add(bloom, url_of(w))
         /\ Admit(w)
         /\ UNCHANGED hit
    ELSE /\ Goto(w, "has_page")
         /\ hit' = [hit EXCEPT ![w] = TRUE]
         /\ UNCHANGED <<bloom, admits, passed>>

\* A gate that tests the set and does not insert.
VisitedSetForgetting(w) ==
    IF url_of(w) \in visited
    THEN Reject(w) /\ UNCHANGED visited
    ELSE Admit(w) /\ UNCHANGED visited

\* The in-memory set, without a store: test and insert under one hold of
\* visited_lock.
VisitedSet(w) ==
    IF url_of(w) \in visited
    THEN Reject(w) /\ UNCHANGED visited
    ELSE visited' = visited \cup {url_of(w)} /\ Admit(w)

\* The entry of _should_visit: the domain check, then the Bloom filter (created
\* first when there is none) or the in-memory set.
WorkerGate(w) ==
    /\ Running(w, "gate")
    /\ IF ~is_allowed_domain(url_of(w), config.allowed_domains)
       THEN Reject(w) /\ UNCHANGED <<bloom, visited, hit>>
       ELSE IF ~config.sqlite_path
       THEN VisitedSet(w) /\ UNCHANGED <<bloom, hit>>
       ELSE IF ~bloom.on
       THEN Goto(w, "bloom_init") /\ UNCHANGED <<bloom, visited, hit, admits, passed>>
       ELSE BloomFastPath(w) /\ UNCHANGED visited
    /\ UNCHANGED <<persistent, runvars, frontier, pages_crawled, robots_cache,
                   cur, todo, ops, failures, fetches, saves, history, bench>>

\* `self._bloom = create_bloom_filter(expected_urls=expected)`, outside the lock:
\* a filter another worker installed in the meantime is replaced.
WorkerBloomInit(w) ==
    /\ Running(w, "bloom_init")
    /\ bloom' = create_bloom_filter(Max(config.max_pages, 1))
    /\ Goto(w, "bloom_check")
    /\ UNCHANGED <<persistent, runvars, frontier, visited, pages_crawled,
                   robots_cache, locals, failures, ghosts>>

\* The Bloom fast path of a worker that created the filter.
WorkerBloomCheck(w) ==
    /\ Running(w, "bloom_check")
    /\ BloomFastPath(w)
    /\ UNCHANGED <<persistent, runvars, frontier, visited, pages_crawled,
                   robots_cache, cur, todo, ops, failures, fetches, saves, history, bench>>

\* `if self.store.has_page(url): return False`
WorkerHasPage(w) ==
    /\ Running(w, "has_page")
    /\ IF has_page(pages, url_of(w))
       THEN Reject(w)
       ELSE Goto(w, "gate_add") /\ UNCHANGED <<admits, passed>>
    /\ UNCHANGED <<persistent, runvars, memory, locals, failures, fetches, saves, history, bench>>

\* `with self.visited_lock: self._bloom.add(url)`, then `return True`
WorkerGateAdd(w) ==
    /\ Running(w, "gate_add")
    /\ bloom' = bloom_add(bloom, url_of(w))
    /\ Admit(w)
    /\ UNCHANGED <<persistent, runvars, frontier, visited, pages_crawled,
                   robots_cache, locals, failures, fetches, saves, history, bench>>

\* ------------------------------------------- fetch, extract, _enqueue_links

\* An extraction that does not look at the content type.
links_to_enqueue_any(url, depth) ==
    IF depth + 1 <= config.max_depth
    THEN SelectSeq(SiteLinks(url),
                   LAMBDA l : is_allowed_domain(l, config.allowed_domains))
    ELSE <<>>

\* The links _enqueue_links goes through: none when next_depth exceeds
\* max_depth, else those that pass the domain filter.
links_to_enqueue(url, depth) ==
    IF SiteIsHtml(url) /\ depth + 1 <= config.max_depth
    THEN SelectSeq(SiteLinks(url),
                   LAMBDA l : is_allowed_domain(l, config.allowed_domains))
    ELSE <<>>

\* After _enqueue_links: `self.store.add_links(url, links)` when there is a
\* store and the page has links, then `self.writer.write(record)`.
AfterLinks(w) ==
    IF config.sqlite_path /\ SiteIsHtml(url_of(w)) /\ SiteLinks(url_of(w)) # <<>>
    THEN "add_links" ELSE "write"

NextLink(w, rest) == IF rest # <<>> THEN "links" ELSE AfterLinks(w)

\* `parsed = urlparse(url); self.rate.wait_turn(parsed.netloc)`; with
\* delay_seconds = 0 the call returns at once.
WorkerWaitTurn(w) ==
    /\ Running(w, "turn")
    /\ host_next_time' = wait_turn(host_next_time, now, netloc(url_of(w)), 0).next
    /\ passed' = [passed EXCEPT ![w].host = netloc(url_of(w))]
    /\ Goto(w, "fetch")
    /\ UNCHANGED <<persistent, runvars, memory, locals, failures, admits, fetches,
                   saves, history, now, sleep_until, rate_calls, fetch_times, call,
                   last_save, added, aux>>

\* `self.http.fetch(url)`: None (a failed fetch, which ends the iteration after
\* `self.store.dequeue(url)`), or a response.
WorkerFetch(w) ==
    /\ Running(w, "fetch")
    /\ fetches' = Bump(fetches, url_of(w))
    /\ \/ /\ failures < MaxFailures
          /\ failures' = failures + 1
          /\ IF config.sqlite_path THEN Goto(w, "fail_deq") ELSE End(w, "failed")
          /\ UNCHANGED todo
       \/ /\ todo' = [todo EXCEPT ![w] = links_to_enqueue(url_of(w), depth_of(w))]
          /\ Goto(w, NextLink(w, todo'[w]))
          /\ UNCHANGED failures
    /\ UNCHANGED <<persistent, runvars, memory, cur, hit, ops, admits, saves, passed,
                   history, bench>>

\* `self.store.dequeue(url)` after a failed fetch.
WorkerFailDequeue(w) ==
    /\ Running(w, "fail_deq")
    /\ frontier_tbl' = dequeue(frontier_tbl, url_of(w))
    /\ ops' = [ops EXCEPT ![w] = @ \cup {"dequeue"}]
    /\ End(w, "failed")
    /\ UNCHANGED <<pages, links_tbl, files, runvars, memory, cur, todo, hit, failures, ghosts>>

\* One link of _enqueue_links: `self.store.seen_url(link)` with a store,
\* `self.frontier.put` without one.
WorkerLinks(w) ==
    /\ Running(w, "links")
    /\ LET link == Head(todo[w])
           rest == Tail(todo[w])
       IN  IF config.sqlite_path
           THEN IF seen_url(pages, frontier_tbl, link)
                THEN /\ todo' = [todo EXCEPT ![w] = rest]
                     /\ Goto(w, NextLink(w, rest))
                     /\ UNCHANGED frontier
                ELSE /\ Goto(w, "mark")
                     /\ UNCHANGED <<todo, frontier>>
           ELSE /\ frontier' = Append(frontier, <<link, depth_of(w) + 1>>)
                /\ todo' = [todo EXCEPT ![w] = rest]
                /\ Goto(w, NextLink(w, rest))
    /\ UNCHANGED <<persistent, runvars, visited, bloom, pages_crawled, robots_cache,
                   cur, hit, ops, failures, ghosts>>

\* `self._persist_enqueue(link, next_depth)` and, when it returns True,
\* `self.frontier.put((link, next_depth))`.
WorkerMark(w) ==
    /\ Running(w, "mark")
    /\ LET link == Head(todo[w])
           rest == Tail(todo[w])
           r == mark_enqueued(frontier_tbl, link, depth_of(w) + 1)
       IN  /\ frontier_tbl' = r.tbl
           /\ frontier' = IF r.ok THEN Append(frontier, <<link, depth_of(w) + 1>>)
                          ELSE frontier
           /\ todo' = [todo EXCEPT ![w] = rest]
           /\ Goto(w, NextLink(w, rest))
    /\ UNCHANGED <<pages, links_tbl, files, runvars, visited, bloom, pages_crawled,
                   robots_cache, cur, hit, ops, failures, ghosts>>

\* `self.store.add_links(url, links)`
WorkerAddLinks(w) ==
    /\ Running(w, "add_links")
    /\ links_tbl' = add_links(links_tbl, url_of(w), SiteLinks(url_of(w)))
    /\ Goto(w, "write")
    /\ UNCHANGED <<pages, frontier_tbl, files, runvars, memory, locals, failures,
                   ghosts>>

\* The record is written and not saved.
WorkerWriteOnly(w) ==
    /\ Running(w, "write")
    /\ files' = writer_write(files, config.output_path, record_of(url_of(w)))
    /\ Goto(w, "incr")
    /\ UNCHANGED <<pages, frontier_tbl, links_tbl, runvars, memory, locals,
                   failures, ghosts>>

\* `self.writer.write(record)`
WorkerWrite(w) ==
    /\ Running(w, "write")
    /\ files' = writer_write(files, config.output_path, record_of(url_of(w)))
    /\ Goto(w, IF config.sqlite_path THEN "save" ELSE "incr")
    /\ UNCHANGED <<pages, frontier_tbl, links_tbl, runvars, memory, locals,
                   failures, ghosts>>

\* `self.store.save_page(record, depth)`
WorkerSave(w) ==
    /\ Running(w, "save")
    /\ pages' = save_page(pages, url_of(w), depth_of(w))
    /\ ops' = [ops EXCEPT ![w] = @ \cup {"save_page"}]
    /\ saves' = saves + 1
    /\ Goto(w, "deq")
    /\ UNCHANGED <<frontier_tbl, links_tbl, files, runvars, memory, cur, todo, hit,
                   failures, admits, fetches, passed, history, bench>>

\* `self.store.dequeue(url)` after save_page
WorkerDequeue(w) ==
    /\ Running(w, "deq")
    /\ frontier_tbl' = dequeue(frontier_tbl, url_of(w))
    /\ ops' = [ops EXCEPT ![w] = @ \cup {"dequeue"}]
    /\ Goto(w, "incr")
    /\ UNCHANGED <<pages, links_tbl, files, runvars, memory, cur, todo, hit, failures, ghosts>>

\* Crawler._increment_pages, then `self.frontier.task_done()`
WorkerIncrement(w) ==
    /\ Running(w, "incr")
    /\ pages_crawled' = pages_crawled + 1
    /\ End(w, "stored")
    /\ UNCHANGED <<persistent, runvars, frontier, visited, bloom, robots_cache,
                   locals, failures, ghosts>>

\* -------------------------------------------------------------- Crawler.run

\* Every worker has returned: run() returns.
Return ==
    /\ phase = "running"
    /\ \A w \in Workers : pc[w] = "done"
    /\ phase' = "returned"
    /\ UNCHANGED <<persistent, run, config, memory, locals, control, failures, ghosts>>

\* The process is killed: its memory is gone, the tables and the files stay.
\* (A kill of the last run of a behaviour has nothing after it to show.)
Kill ==
    /\ phase = "running"
    /\ run < MaxRuns
    /\ phase' = "killed"
    /\ frontier' = <<>>
    /\ visited' = {}
    /\ bloom' = NoBloom
    /\ pages_crawled' = 0
    /\ robots_cache' = [n \in Netlocs |-> "unset"]
    /\ pc' = [w \in Workers |-> "done"]
    /\ cur' = [w \in Workers |-> NoEntry]
    /\ todo' = [w \in Workers |-> <<>>]
    /\ hit' = [w \in Workers |-> FALSE]
    /\ ops' = [w \in Workers |-> {}]
    /\ outcome' = [w \in Workers |-> "none"]
    /\ fetches' = [u \in URLs |-> 0]
    /\ passed' = [w \in Workers |-> NoChecks]
    /\ ended' = {}
    /\ UNCHANGED <<persistent, run, config, failures, admits, saves, history, bench>>

\* The program is started again, on the same database: Crawler.__init__.
NewRun ==
    /\ phase \in {"returned", "killed"}
    /\ run < MaxRuns
    /\ run' = run + 1
    /\ phase' = "running"
    /\ \E c \in LaterConfigs : \E obj \in Construct(c, pages, frontier_tbl, files) :
          /\ config' = c
          /\ files' = obj.files
          /\ frontier_tbl' = obj.frontier_tbl
          /\ frontier' = obj.frontier
          /\ bloom' = obj.bloom
          /\ pc' = [w \in Workers |-> IF w <= c.concurrency THEN "loop" ELSE "done"]
          /\ resumed' = should_resume(c, files)
          /\ clean' = (clean /\ phase = "returned" /\ should_resume(c, files))
          /\ allStore' = (allStore /\ c.sqlite_path)
          /\ lines0' = Len(obj.files[c.output_path].lines)
    /\ visited' = {}
    /\ pages_crawled' = 0
    /\ robots_cache' = [n \in Netlocs |-> "unset"]
    /\ cur' = [w \in Workers |-> NoEntry]
    /\ todo' = [w \in Workers |-> <<>>]
    /\ hit' = [w \in Workers |-> FALSE]
    /\ ops' = [w \in Workers |-> {}]
    /\ outcome' = [w \in Workers |-> "none"]
    /\ admits' = [u \in URLs |-> 0]
    /\ fetches' = [u \in URLs |-> 0]
    /\ passed' = [w \in Workers |-> NoChecks]
    /\ ended' = {}
    /\ pages0' = RowUrls(pages)
    /\ prevEnd' = phase
    /\ priorStored' = priorStored \cup {u \in RowUrls(pages) : admits[u] > 0}
    /\ saves' = 0
    /\ pending0' = Pending
    /\ prevCapped' = (/\ phase = "returned"
                      /\ config.sqlite_path
                      /\ pages_crawled >= config.max_pages)
    /\ UNCHANGED <<pages, links_tbl, failures, bench>>

Next ==
    \/ \E w \in Workers : WorkerLoop(w)
    \/ \E w \in Workers : WorkerGet(w)
    \/ \E w \in Workers : WorkerRecheck(w)
    \/ \E w \in Workers : WorkerRobots(w)
    \/ \E w \in Workers : WorkerRobotsFetch(w)
    \/ \E w \in Workers : WorkerRobotsDequeue(w)
    \/ \E w \in Workers : WorkerGate(w)
    \/ \E w \in Workers : WorkerBloomInit(w)
    \/ \E w \in Workers : WorkerBloomCheck(w)
    \/ \E w \in Workers : WorkerHasPage(w)
    \/ \E w \in Workers : WorkerGateAdd(w)
    \/ \E w \in Workers : WorkerWaitTurn(w)
    \/ \E w \in Workers : WorkerFetch(w)
    \/ \E w \in Workers : WorkerFailDequeue(w)
    \/ \E w \in Workers : WorkerLinks(w)
    \/ \E w \in Workers : WorkerMark(w)
    \/ \E w \in Workers : WorkerAddLinks(w)
    \/ \E w \in Workers : WorkerWrite(w)
    \/ \E w \in Workers : WorkerSave(w)
    \/ \E w \in Workers : WorkerDequeue(w)
    \/ \E w \in Workers : WorkerIncrement(w)
    \/ Return
    \/ Kill
    \/ NewRun

Spec == Init /\ [][Next]_vars

\* One step of worker thread w.
WorkerStep(w) ==
    \/ WorkerLoop(w) \/ WorkerGet(w) \/ WorkerRecheck(w)
    \/ WorkerRobots(w) \/ WorkerRobotsFetch(w) \/ WorkerRobotsDequeue(w)
    \/ WorkerGate(w) \/ WorkerBloomInit(w) \/ WorkerBloomCheck(w)
    \/ WorkerHasPage(w) \/ WorkerGateAdd(w)
    \/ WorkerWaitTurn(w) \/ WorkerFetch(w) \/ WorkerFailDequeue(w)
    \/ WorkerLinks(w) \/ WorkerMark(w) \/ WorkerAddLinks(w)
    \/ WorkerWrite(w) \/ WorkerSave(w) \/ WorkerDequeue(w) \/ WorkerIncrement(w)

\* The runs under a fair scheduler: a thread that can take a step takes one
\* (every call of the worker returns: the queue get has a timeout, the HTTP
\* request has one, a lock is held for one block), and run() returns once the
\* pool has joined its workers.  Nothing obliges a kill or another run.
LiveSpec ==
    /\ Init /\ [][Next]_vars
    /\ \A w \in Workers : WF_vars(WorkerStep(w))
    /\ WF_vars(Return)

\* -------------------------------------------------------------- RateLimiter
\* The rate limiter on its own: workers at `self.rate.wait_turn(parsed.netloc)`
\* and `self.http.fetch(url)` of Crawler.worker, with delay_seconds > 0 and a
\* clock.  Time is counted in ticks.

\* delay_seconds
DelaySeconds == 2
\* The last tick of the clock.
MaxTime == 3

\* ------------------------------------------------ a JSONL write that fails
\* The runs in which `self.writer.write(record)` can raise (the disk is full,
\* the file is gone); such a failure counts among the failures of the
\* environment.

\* The exception is caught and logged, and the worker goes on with the record.
WorkerWriteFailsCaught(w) ==
    /\ Running(w, "write")
    /\ failures < MaxFailures
    /\ failures' = failures + 1
    /\ pc' = [pc EXCEPT ![w] = IF config.sqlite_path THEN "save" ELSE "incr"]
    /\ outcome' = [outcome EXCEPT ![w] = "crashed"]
    /\ UNCHANGED <<persistent, runvars, memory, locals, ended, ghosts>>

\* `self.writer.write(record)` raises: nothing in Crawler.worker catches it, the
\* worker function ends and its future holds the exception; the sink lock is
\* released by its `with`.
WorkerWriteFails(w) ==
    /\ Running(w, "write")
    /\ failures < MaxFailures
    /\ failures' = failures + 1
    /\ pc' = [pc EXCEPT ![w] = "done"]
    /\ outcome' = [outcome EXCEPT ![w] = "crashed"]
    /\ UNCHANGED <<persistent, runvars, memory, locals, ended, ghosts>>

CrashNext ==
    \/ Next
    \/ \E w \in Workers : WorkerWriteFails(w)

\* run() does not look at the results of the futures (`for _ in
\* as_completed(futures): pass`), so it returns when every worker function has
\* ended, however it ended.
CrashSpec ==
    /\ Init /\ [][CrashNext]_vars
    /\ \A w \in Workers : WF_vars(WorkerStep(w))
    /\ WF_vars(Return)

\* A Crawler with nothing stored, nothing queued, nothing counted; with no
\* output file yet and a configuration without start URLs it is Parked.
ParkedCrawler ==
    /\ pages = {}
    /\ frontier_tbl = {}
    /\ links_tbl = {}
    /\ run = 1
    /\ phase = "running"
    /\ frontier = <<>>
    /\ visited = {}
    /\ pages_crawled = 0
    /\ robots_cache = [n \in Netlocs |-> "unset"]
    /\ todo = [w \in Workers |-> <<>>]
    /\ hit = [w \in Workers |-> FALSE]
    /\ outcome = [w \in Workers |-> "none"]
    /\ ops = [w \in Workers |-> {}]
    /\ failures = 0
    /\ admits = [u \in URLs |-> 0]
    /\ fetches = [u \in URLs |-> 0]
    /\ ended = {}
    /\ pages0 = {}
    /\ lines0 = 0
    /\ resumed = FALSE
    /\ prevEnd = "none"
    /\ clean = TRUE
    /\ allStore = FALSE
    /\ priorStored = {}
    /\ saves = 0
    /\ passed = [w \in Workers |-> NoChecks]
    /\ pending0 = {}
    /\ prevCapped = FALSE

Parked ==
    /\ files = NoFiles
    /\ config = Config(<<>>, 1, 2, FALSE, "o1", FALSE, FALSE)
    /\ ParkedCrawler

parked == <<persistent, runvars, memory, todo, hit, ops, outcome, ended, failures,
            admits, fetches, saves, passed, history>>

RateInit ==
    /\ Parked
    /\ BenchIdle
    /\ bloom = NoBloom
    /\ pc = [w \in Workers |-> "turn"]
    /\ cur = [w \in Workers |-> NoEntry]

\* The clock advances.
RateTick ==
    /\ now < MaxTime
    /\ now' = now + 1
    /\ UNCHANGED <<parked, pc, cur, host_next_time, sleep_until, rate_calls,
                   fetch_times, call, last_save, added, aux>>

\* A worker holding URL u calls wait_turn(urlparse(u).netloc): the locked block.
RateWaitTurn(w) ==
    /\ pc[w] = "turn"
    /\ \E u \in {"a", "x"} :
          LET host == netloc(u)
              r == wait_turn(host_next_time, now, host, DelaySeconds)
          IN  /\ r.next[host] <= MaxTime + DelaySeconds
              /\ cur' = [cur EXCEPT ![w] = <<u, 0>>]
              /\ host_next_time' = r.next
              /\ sleep_until' = [sleep_until EXCEPT ![w] = now + r.sleep_for]
              /\ rate_calls' = [rate_calls EXCEPT ![host] = Append(@, now)]
              /\ pc' = [pc EXCEPT ![w] = IF r.sleep_for > 0 THEN "sleep" ELSE "http"]
    /\ UNCHANGED <<parked, now, fetch_times, call, last_save, added, aux>>

\* `self._sleep(sleep_for)` returns, no earlier than asked.
RateSleep(w) ==
    /\ pc[w] = "sleep"
    /\ now >= sleep_until[w]
    /\ pc' = [pc EXCEPT ![w] = "http"]
    /\ UNCHANGED <<parked, cur, now, host_next_time, sleep_until, rate_calls,
                   fetch_times, call, last_save, added, aux>>

\* `self.http.fetch(url)` starts.
RateFetch(w) ==
    /\ pc[w] = "http"
    /\ fetch_times' = [fetch_times EXCEPT ![netloc(cur[w][1])] = Append(@, now)]
    /\ pc' = [pc EXCEPT ![w] = "turn"]
    /\ UNCHANGED <<parked, cur, now, host_next_time, sleep_until, rate_calls,
                   call, last_save, added, aux>>

RateNext ==
    \/ RateTick
    \/ \E w \in Workers : RateWaitTurn(w)
    \/ \E w \in Workers : RateSleep(w)
    \/ \E w \in Workers : RateFetch(w)

RateSpec == RateInit /\ [][RateNext]_vars

\* -------------------------------------------------- SqliteStore on its own
\* The methods of one SqliteStore called in any order with any arguments, as
\* threads sharing the store can; each call is one `with self._lock,
\* self._conn:` block.

\* The largest depth a caller passes.
MaxStoreDepth == 1

StoreURLs == {"a", "b"}
StoreDepths == 0 .. MaxStoreDepth

\* The depth of the row of url in table tbl, -1 when there is none.
DepthIn(tbl, url) ==
    IF \E r \in tbl : r[1] = url THEN (CHOOSE r \in tbl : r[1] = url)[2] ELSE -1

offstore == <<files, runvars, memory, pc, cur, todo, hit, ops, outcome, ended,
              failures, admits, fetches, saves, passed, history, now,
              host_next_time, sleep_until, rate_calls, fetch_times, added, aux>>

StoreInit ==
    /\ Parked
    /\ BenchIdle
    /\ bloom = NoBloom
    /\ pc = [w \in Workers |-> "done"]
    /\ cur = [w \in Workers |-> NoEntry]

StoreMarkEnqueued(u, d) ==
    /\ LET r == mark_enqueued(frontier_tbl, u, d)
       IN  /\ frontier_tbl' = r.tbl
           /\ call' = [op |-> "mark_enqueued", url |-> u, depth |-> d,
                       old |-> DepthIn(frontier_tbl, u), ret |-> r.ok]
    /\ UNCHANGED <<pages, links_tbl, last_save, offstore>>

StoreDequeue(u) ==
    /\ frontier_tbl' = dequeue(frontier_tbl, u)
    /\ call' = [op |-> "dequeue", url |-> u, depth |-> 0,
                old |-> DepthIn(frontier_tbl, u), ret |-> FALSE]
    /\ UNCHANGED <<pages, links_tbl, last_save, offstore>>

StoreSavePage(u, d) ==
    /\ pages' = save_page(pages, u, d)
    /\ last_save' = [last_save EXCEPT ![u] = d]
    /\ call' = [op |-> "save_page", url |-> u, depth |-> d,
                old |-> DepthIn(pages, u), ret |-> FALSE]
    /\ UNCHANGED <<frontier_tbl, links_tbl, offstore>>

StoreAddLinks(u, to_urls) ==
    /\ links_tbl' = add_links(links_tbl, u, to_urls)
    /\ call' = [op |-> "add_links", url |-> u, depth |-> 0, old |-> -1,
                ret |-> FALSE]
    /\ UNCHANGED <<pages, frontier_tbl, last_save, offstore>>

StoreSeenUrl(u) ==
    /\ call' = [op |-> "seen_url", url |-> u, depth |-> 0,
                old |-> DepthIn(frontier_tbl, u),
                ret |-> seen_url(pages, frontier_tbl, u)]
    /\ UNCHANGED <<pages, frontier_tbl, links_tbl, last_save, offstore>>

StoreHasPage(u) ==
    /\ call' = [op |-> "has_page", url |-> u, depth |-> 0,
                old |-> DepthIn(pages, u), ret |-> has_page(pages, u)]
    /\ UNCHANGED <<pages, frontier_tbl, links_tbl, last_save, offstore>>

StoreNext ==
    \/ \E u \in StoreURLs : \E d \in StoreDepths : StoreMarkEnqueued(u, d)
    \/ \E u \in StoreURLs : StoreDequeue(u)
    \/ \E u \in StoreURLs : \E d \in StoreDepths : StoreSavePage(u, d)
    \/ \E u \in StoreURLs : \E v \in StoreURLs : StoreAddLinks(u, <<v>>)
    \/ \E u \in StoreURLs : StoreSeenUrl(u)
    \/ \E u \in StoreURLs : StoreHasPage(u)

StoreSpec == StoreInit /\ [][StoreNext]_vars

\* -------------------------------------------------- BloomFilter on its own
\* One BloomFilter of any of the sizes the engine creates, with add, add_batch
\* and contains called in any order; the engine calls them under visited_lock
\* or from __init__, one at a time.

\* The largest expected_urls a filter is created for.
MaxExpected == 2
\* The most items added to one filter.
MaxAdded == 3

Batches == {<<>>} \cup {<<x>> : x \in URLs} \cup {<<x, y>> : x, y \in URLs}

offbloom == <<persistent, runvars, frontier, visited, pages_crawled,
              robots_cache, locals, control, failures, admits, fetches, saves,
              passed, history, now, host_next_time, sleep_until, rate_calls,
              fetch_times, last_save>>

BloomInit ==
    /\ Parked
    /\ BenchIdle
    /\ \E n \in 1 .. MaxExpected : bloom = create_bloom_filter(n)
    /\ pc = [w \in Workers |-> "done"]
    /\ cur = [w \in Workers |-> NoEntry]

BloomAdd(x) ==
    /\ bloom.n_added + 1 <= MaxAdded
    /\ bloom' = bloom_add(bloom, x)
    /\ added' = added \cup {x}
    /\ call' = [op |-> "add", url |-> x, depth |-> 0, old |-> -1, ret |-> FALSE]
    /\ UNCHANGED <<aux, offbloom>>

BloomAddBatch(items) ==
    /\ bloom.n_added + Len(items) <= MaxAdded
    /\ bloom' = bloom_add_batch(bloom, items)
    /\ added' = added \cup Range(items)
    /\ call' = [op |-> "add_batch", url |-> "", depth |-> 0, old |-> -1,
                ret |-> FALSE]
    /\ probe' = [fn |-> "add_batch", items |-> items]
    /\ UNCHANGED <<held, sink, metrics, offbloom>>

BloomContains(x) ==
    /\ call' = [op |-> "contains", url |-> x, depth |-> 0, old |-> -1,
                ret |-> bloom_contains(bloom, x)]
    /\ UNCHANGED <<bloom, added, aux, offbloom>>

BloomNext ==
    \/ \E x \in URLs : BloomAdd(x)
    \/ \E items \in Batches : BloomAddBatch(items)
    \/ \E x \in URLs : BloomContains(x)

BloomSpec == BloomInit /\ [][BloomNext]_vars

\* ------------------------------------------ UrlTools.is_allowed_domain alone
\* is_allowed_domain applied to any URL form and any allowed_domains list.

offprobe == <<persistent, runvars, memory, locals, control, failures, admits,
              fetches, saves, passed, history, now, host_next_time, sleep_until,
              rate_calls, fetch_times, call, last_save, added, held, sink, metrics>>

DomainInit ==
    /\ Parked
    /\ BenchIdle
    /\ bloom = NoBloom
    /\ pc = [w \in Workers |-> "done"]
    /\ cur = [w \in Workers |-> NoEntry]

DomainApply(form, allowed) ==
    /\ probe' = [fn |-> "is_allowed_domain", url |-> form, allowed |-> allowed,
                 ret |-> is_allowed_netloc(urlparse_netloc_lower(form), allowed)]
    /\ UNCHANGED offprobe

DomainNext == \E form \in UrlForms : \E allowed \in AllowedLists :
                 DomainApply(form, allowed)

DomainSpec == DomainInit /\ [][DomainNext]_vars

\* --------------------------------------------------- JsonlWriter on its own
\* One JsonlWriter opened on a file that may hold lines, and threads calling
\* write and close in any order.  A call is: take self._lock, act on the
\* handle, release the lock.

\* write calls in one behaviour
MaxWrites == 2
\* close calls in one behaviour
MaxCloses == 2

offsink == <<pages, frontier_tbl, links_tbl, runvars, memory, todo, hit, ops,
             outcome, ended, failures, admits, fetches, saves, passed, history,
             now, host_next_time, sleep_until, rate_calls, fetch_times, call,
             last_save, added, probe, metrics>>

SinkInit ==
    /\ ParkedCrawler
    /\ config = Config(<<>>, 1, 2, FALSE, "o1", FALSE, FALSE)
    /\ RateIdle
    /\ probe = NoProbe
    /\ metrics = FreshMetrics
    /\ bloom = NoBloom
    /\ pc = [w \in Workers |-> "idle"]
    /\ cur = [w \in Workers |-> NoEntry]
    /\ held = [w \in Workers |-> {}]
    /\ \E prev \in {<<>>, <<"a">>, <<"a", "b">>} : \E exists, append \in BOOLEAN :
          /\ (prev # <<>>) => exists
          /\ LET before == [NoFiles EXCEPT !["o1"] = [exists |-> exists,
                                                     lines |-> prev]]
             IN  /\ files = JsonlWriter(before, "o1", append)
                 /\ sink = [path |-> "o1", append |-> append, prev |-> prev,
                            start |-> files["o1"].lines, closed |-> FALSE,
                            written |-> <<>>, by |-> {}, closes |-> 0,
                            at_close |-> <<>>]

\* A thread calls write(record) and gets `self._lock`.
SinkCallWrite(t, record) ==
    /\ pc[t] = "idle"
    /\ Len(sink.written) + Cardinality({v \in Workers : pc[v] = "fh_write"}) < MaxWrites
    /\ \A v \in Workers : "sink" \notin held[v]
    /\ held' = [held EXCEPT ![t] = {"sink"}]
    /\ cur' = [cur EXCEPT ![t] = <<record, 0>>]
    /\ pc' = [pc EXCEPT ![t] = "fh_write"]
    /\ UNCHANGED <<files, sink, offsink>>

\* `self._fh.write(line + "\n"); self._fh.flush()`; on a closed handle the
\* write raises ValueError and the file is as before.
SinkWrite(t) ==
    /\ pc[t] = "fh_write"
    /\ IF sink.closed
       THEN UNCHANGED <<files, sink>>
       ELSE /\ files' = writer_write(files, sink.path, cur[t][1])
            /\ sink' = [sink EXCEPT !.written = Append(@, cur[t][1]),
                                    !.by = @ \cup {t}]
    /\ pc' = [pc EXCEPT ![t] = "unlock"]
    /\ UNCHANGED <<cur, held, offsink>>

\* A thread calls close() and gets `self._lock`.
SinkCallClose(t) ==
    /\ pc[t] = "idle"
    /\ sink.closes + Cardinality({v \in Workers : pc[v] = "fh_close"}) < MaxCloses
    /\ \A v \in Workers : "sink" \notin held[v]
    /\ held' = [held EXCEPT ![t] = {"sink"}]
    /\ pc' = [pc EXCEPT ![t] = "fh_close"]
    /\ UNCHANGED <<files, sink, cur, offsink>>

\* `if not self._fh.closed: self._fh.flush(); self._fh.close()`
SinkClose(t) ==
    /\ pc[t] = "fh_close"
    /\ sink' = [sink EXCEPT !.closed = TRUE,
                            !.closes = @ + 1,
                            !.at_close = IF sink.closes = 0
                                         THEN files[sink.path].lines ELSE @]
    /\ pc' = [pc EXCEPT ![t] = "unlock"]
    /\ UNCHANGED <<files, cur, held, offsink>>

\* The `with self._lock:` block ends.
SinkRelease(t) ==
    /\ pc[t] = "unlock"
    /\ held' = [held EXCEPT ![t] = {}]
    /\ pc' = [pc EXCEPT ![t] = "idle"]
    /\ UNCHANGED <<files, sink, cur, offsink>>

SinkNext ==
    \/ \E t \in Workers : \E record \in {"b", "c"} : SinkCallWrite(t, record)
    \/ \E t \in Workers : SinkWrite(t)
    \/ \E t \in Workers : SinkCallClose(t)
    \/ \E t \in Workers : SinkClose(t)
    \/ \E t \in Workers : SinkRelease(t)

SinkSpec == SinkInit /\ [][SinkNext]_vars

\* ------------------------------------------------------ the locks on their own
\* The threads of a crawl as the locks see them: the thread that constructs
\* the Crawler (0), the workers, and the StatsLogger thread (3).  The code of a
\* thread is a table from positions to what happens there: a lock is taken
\* (`with lock:` begins), a lock is released (the block ends), or a step that
\* takes no lock; with the positions that can follow.  The data is left out:
\* where the code branches on it, every branch can follow.

Threads == {0} \cup Workers \cup {3}

\* `with lock:` at position at, the block being position at_in, then nexts.
Block(at, lock, nexts) ==
    (at :> [op |-> "acquire", lock |-> lock, next |-> {at \o "_in"}])
    @@ ((at \o "_in") :> [op |-> "release", lock |-> lock, next |-> nexts])

Plain(at, nexts) == at :> [op |-> "step", lock |-> "", next |-> nexts]

\* A _should_visit that asks the store inside the block of visited_lock.
ShouldVisitCodeNested(c) ==
    Plain("gate", {"loop"} \cup (IF c.sqlite_path THEN {"bloom"} ELSE {"visited"}))
    @@ ("bloom" :> [op |-> "acquire", lock |-> "visited", next |-> {"has_page"}])
    @@ Block("has_page", "store", {"bloom_in"})
    @@ ("bloom_in" :> [op |-> "release", lock |-> "visited",
                       next |-> {"loop", "turn"}])
    @@ Block("bloom_add", "visited", {"turn"})
    @@ Block("visited", "visited", {"loop", "turn"})

\* Crawler._should_visit: the domain check; with a store the Bloom fast path
\* under visited_lock, store.has_page, the Bloom add under visited_lock;
\* without one the set under visited_lock.
ShouldVisitCode(c) ==
    Plain("gate", {"loop"} \cup (IF c.sqlite_path THEN {"bloom"} ELSE {"visited"}))
    @@ Block("bloom", "visited", {"turn", "has_page"})
    @@ Block("has_page", "store", {"loop", "bloom_add"})
    @@ Block("bloom_add", "visited", {"turn"})
    @@ Block("visited", "visited", {"loop", "turn"})

\* A wait_turn that sleeps inside the block of its lock.
WaitTurnCodeSleepingInside ==
    ("turn" :> [op |-> "acquire", lock |-> "rate", next |-> {"sleep", "turn_in"}])
    @@ Plain("sleep", {"turn_in"})
    @@ ("turn_in" :> [op |-> "release", lock |-> "rate", next |-> {"http"}])

\* RateLimiter.wait_turn with delay_seconds > 0: the block of self._lock, then
\* the sleep when there is one.
WaitTurnCode ==
    Block("turn", "rate", {"sleep", "http"})
    @@ Plain("sleep", {"http"})

\* Crawler.worker.
WorkerCode(c) ==
    Block("loop", "pages", {"get", "exit"})
    @@ Plain("get", {"recheck", "exit"})
    @@ Block("recheck", "pages",
             {"exit"} \cup (IF c.obey_robots_txt THEN {"robots"} ELSE {"gate"}))
    @@ Plain("robots",
             {"gate"} \cup (IF c.sqlite_path THEN {"robots_deq"} ELSE {"loop"}))
    @@ Block("robots_deq", "store", {"loop"})
    @@ ShouldVisitCode(c)
    @@ WaitTurnCode
    @@ Plain("http", {"links", "write"} \cup (IF c.sqlite_path THEN {"fail_deq"}
                                                               ELSE {"fail_record"}))
    @@ Block("fail_deq", "store", {"fail_record"})
    @@ Block("fail_record", "metrics", {"loop"})
    @@ Plain("links", {"write"} \cup (IF c.sqlite_path
                                      THEN {"seen_url", "add_links"} ELSE {"links"}))
    @@ Block("seen_url", "store", {"links", "mark"})
    @@ Block("mark", "store", {"links"})
    @@ Block("add_links", "store", {"write"})
    @@ Block("write", "sink", {"record"})
    @@ Block("record", "metrics", IF c.sqlite_path THEN {"save"} ELSE {"incr"})
    @@ Block("save", "store", {"deq"})
    @@ Block("deq", "store", {"incr"})
    @@ Block("incr", "pages", {"loop"})
    @@ Plain("exit", {})

\* Crawler.__init__: on the resume path the generator iter_pages_urls keeps the
\* store lock while the caller collects and adds its rows, then load_frontier;
\* the start URLs are put and, with a store, persisted.
InitCode(c) ==
    Plain("init", IF c.sqlite_path /\ c.resume THEN {"iter_pages"}
                  ELSE IF c.sqlite_path THEN {"persist"} ELSE {"started"})
    @@ ("iter_pages" :> [op |-> "acquire", lock |-> "store",
                         next |-> {"iter_pages_row"}])
    @@ Plain("iter_pages_row", {"add_batch", "iter_pages_end"})
    @@ Plain("add_batch", {"iter_pages_row"})
    @@ ("iter_pages_end" :> [op |-> "release", lock |-> "store",
                             next |-> {"load_frontier"}])
    @@ Block("load_frontier", "store", {"persist", "started"})
    @@ Block("persist", "store", {"persist", "started"})
    @@ Plain("started", {})

\* StatsLogger.run: wait, Metrics.snapshot, log.
TickerCode ==
    Plain("tick", {"snapshot"})
    @@ Block("snapshot", "metrics", {"log"})
    @@ Plain("log", {"tick"})

Code(t, c) ==
    IF t = 0 THEN InitCode(c) ELSE IF t = 3 THEN TickerCode ELSE WorkerCode(c)

\* The configurations: with a store, robots.txt and resume, and without any.
LockConfigs ==
    { Config(<<"a">>, 1, 2, TRUE, "o1", TRUE, TRUE),
      Config(<<"a">>, 1, 2, FALSE, "o1", FALSE, FALSE) }

offlocks == <<persistent, runvars, memory, locals, outcome, ended, failures,
              admits, fetches, saves, passed, history, now, host_next_time,
              sleep_until, rate_calls, fetch_times, call, last_save, added,
              sink, probe, metrics>>

LockInit ==
    /\ ParkedCrawler
    /\ files = NoFiles
    /\ config \in LockConfigs
    /\ RateIdle
    /\ sink = NoSink
    /\ probe = NoProbe
    /\ metrics = FreshMetrics
    /\ bloom = NoBloom
    /\ cur = [w \in Workers |-> NoEntry]
    /\ pc = [t \in Threads |-> IF t = 0 THEN "init" ELSE IF t = 3 THEN "tick"
                                ELSE "loop"]
    /\ held = [t \in Threads |-> {}]

\* run() starts the workers and the StatsLogger after __init__ has returned.
Runnable(t) == t = 0 \/ pc[0] = "started"

\* The thread takes the lock of its position, when no thread holds it.
LockAcquire(t) ==
    /\ Runnable(t)
    /\ LET at == Code(t, config)[pc[t]]
       IN  /\ at.op = "acquire"
           /\ \A v \in Threads : at.lock \notin held[v]
           /\ held' = [held EXCEPT ![t] = @ \cup {at.lock}]
           /\ \E l \in at.next : pc' = [pc EXCEPT ![t] = l]
    /\ UNCHANGED offlocks

\* The block of the lock ends.
LockRelease(t) ==
    /\ Runnable(t)
    /\ LET at == Code(t, config)[pc[t]]
       IN  /\ at.op = "release"
           /\ held' = [held EXCEPT ![t] = @ \ {at.lock}]
           /\ \E l \in at.next : pc' = [pc EXCEPT ![t] = l]
    /\ UNCHANGED offlocks

\* A step outside or inside a block that takes and releases no lock.
LockStep(t) ==
    /\ Runnable(t)
    /\ LET at == Code(t, config)[pc[t]]
       IN  /\ at.op = "step"
           /\ \E l \in at.next : pc' = [pc EXCEPT ![t] = l]
    /\ UNCHANGED <<held, offlocks>>

LockNext ==
    \/ \E t \in Threads : LockAcquire(t)
    \/ \E t \in Threads : LockRelease(t)
    \/ \E t \in Threads : LockStep(t)

LockSpec == LockInit /\ [][LockNext]_vars

\* --------------------------------------------------- RobotsCache on its own
\* The workers of one run calling `self.robots.can_fetch(url)`; RobotsCache has
\* no lock, so the steps of can_fetch of two workers interleave.  fetch_times
\* takes the requests for robots.txt of each origin, ended the <<url, policy>>
\* of every decision, outcome the result of the worker's last call.

offrobots == <<persistent, runvars, frontier, visited, bloom, pages_crawled,
               todo, hit, ops, failures, admits, fetches, saves, passed, history,
               now, host_next_time, sleep_until, rate_calls, call, last_save,
               added, aux>>

RobotsInit ==
    /\ ParkedCrawler
    /\ files = NoFiles
    /\ config = Config(<<>>, 1, 2, TRUE, "o1", FALSE, FALSE)
    /\ BenchIdle
    /\ bloom = NoBloom
    /\ pc = [w \in Workers |-> "idle"]
    /\ cur = [w \in Workers |-> NoEntry]

\* A worker calls can_fetch(u).
RobotsCall(w, u) ==
    /\ pc[w] = "idle"
    /\ cur' = [cur EXCEPT ![w] = <<u, 0>>]
    /\ pc' = [pc EXCEPT ![w] = "check"]
    /\ UNCHANGED <<robots_cache, fetch_times, ended, outcome, offrobots>>

\* `if root not in self._cache:`; when it is not, _fetch_robots sends the
\* request for robots.txt.
RobotsCheck(w) ==
    /\ pc[w] = "check"
    /\ LET root == netloc(url_of(w))
       IN  IF robots_cache[root] = "unset"
           THEN /\ fetch_times' = [fetch_times EXCEPT ![root] = Append(@, now)]
                /\ pc' = [pc EXCEPT ![w] = "request"]
           ELSE /\ pc' = [pc EXCEPT ![w] = "read"]
                /\ UNCHANGED fetch_times
    /\ UNCHANGED <<robots_cache, cur, ended, outcome, offrobots>>

\* `self._cache[root] = self._fetch_robots(root)`: None when the request failed
\* or answered 400 or more, else the parsed rules.
RobotsRequest(w) ==
    /\ pc[w] = "request"
    /\ \E rp \in {"none", "rules"} :
          robots_cache' = [robots_cache EXCEPT ![netloc(url_of(w))] = rp]
    /\ pc' = [pc EXCEPT ![w] = "read"]
    /\ UNCHANGED <<cur, fetch_times, ended, outcome, offrobots>>

\* `rp = self._cache[root]` and the decision under rp.
RobotsRead(w) ==
    /\ pc[w] = "read"
    /\ LET rp == robots_cache[netloc(url_of(w))]
       IN  /\ ended' = ended \cup {<<url_of(w), rp>>}
           /\ outcome' = [outcome EXCEPT ![w] =
                             IF rp_can_fetch(rp, url_of(w)) THEN "allowed"
                             ELSE "disallowed"]
    /\ pc' = [pc EXCEPT ![w] = "idle"]
    /\ UNCHANGED <<robots_cache, cur, fetch_times, offrobots>>

RobotsNext ==
    \/ \E w \in Workers : \E u \in {"a", "c", "x"} : RobotsCall(w, u)
    \/ \E w \in Workers : RobotsCheck(w)
    \/ \E w \in Workers : RobotsRequest(w)
    \/ \E w \in Workers : RobotsRead(w)

RobotsSpec == RobotsInit /\ [][RobotsNext]_vars

\* ------------------------------------------------------- Metrics on its own
\* Threads calling `self.metrics.record_fetch(ok, size_bytes, dt_ms)` and
\* Metrics.snapshot() on one Metrics object; the statements of the block of
\* record_fetch are taken one at a time.  dt_ms is one unit in every call.

\* The record_fetch calls of a behaviour.
MaxRecords == 2

BytesRead == {-1, 2}

offmetrics == <<persistent, runvars, memory, locals, outcome, ended, failures,
                admits, fetches, saves, passed, history, now, host_next_time,
                sleep_until, rate_calls, fetch_times, call, last_save, added,
                sink, probe>>

MetricsInit ==
    /\ Parked
    /\ BenchIdle
    /\ bloom = NoBloom
    /\ pc = [w \in Workers |-> "idle"]
    /\ cur = [w \in Workers |-> NoEntry]

\* A thread calls record_fetch(ok, bytes_read, 1) or snapshot().
MetricsCall(w, fn, ok, bytes_read) ==
    /\ pc[w] = "idle"
    /\ IF fn = "record_fetch"
       THEN /\ Len(metrics.log) < MaxRecords
            /\ metrics' = [metrics EXCEPT
                              !.log = Append(@, [ok |-> ok, bytes_read |-> bytes_read,
                                                 fetch_ms |-> 1]),
                              !.id[w] = Len(metrics.log) + 1]
            /\ pc' = [pc EXCEPT ![w] = "record_lock"]
       ELSE /\ metrics' = [metrics EXCEPT !.id[w] = 0]
            /\ pc' = [pc EXCEPT ![w] = "snapshot_lock"]
    /\ UNCHANGED <<held, offmetrics>>

\* A thread enters the block whether or not another thread is in it.
MetricsAcquireUnlocked(w) ==
    /\ pc[w] \in {"record_lock", "snapshot_lock"}
    /\ held' = [held EXCEPT ![w] = {"metrics"}]
    /\ pc' = [pc EXCEPT ![w] = IF pc[w] = "record_lock" THEN "pages" ELSE "copy"]
    /\ UNCHANGED <<metrics, offmetrics>>

\* `with self._lock:` of record_fetch and of snapshot.
MetricsAcquire(w) ==
    /\ pc[w] \in {"record_lock", "snapshot_lock"}
    /\ \A v \in Workers : "metrics" \notin held[v]
    /\ held' = [held EXCEPT ![w] = {"metrics"}]
    /\ pc' = [pc EXCEPT ![w] = IF pc[w] = "record_lock" THEN "pages" ELSE "copy"]
    /\ UNCHANGED <<metrics, offmetrics>>

\* The statements of the block of record_fetch, in order: pages += 1,
\* bytes += max(0, bytes_read), errors += 1 when not ok, fetch_ms_sum += fetch_ms.
MetricsUpdate(w) ==
    /\ pc[w] \in {"pages", "bytes", "errors", "fetch_ms_sum"}
    /\ LET arg == metrics.log[metrics.id[w]]
       IN  CASE pc[w] = "pages" ->
                  /\ metrics' = [metrics EXCEPT !.totals.pages = @ + 1]
                  /\ pc' = [pc EXCEPT ![w] = "bytes"]
             [] pc[w] = "bytes" ->
                  /\ metrics' = [metrics EXCEPT
                                    !.totals.bytes = @ + Max(0, arg.bytes_read)]
                  /\ pc' = [pc EXCEPT ![w] = "errors"]
             [] pc[w] = "errors" ->
                  /\ metrics' = [metrics EXCEPT
                                    !.totals.errors = IF arg.ok THEN @ ELSE @ + 1]
                  /\ pc' = [pc EXCEPT ![w] = "fetch_ms_sum"]
             [] pc[w] = "fetch_ms_sum" ->
                  /\ metrics' = [metrics EXCEPT
                                    !.totals.fetch_ms_sum = @ + arg.fetch_ms,
                                    !.applied = @ \cup {metrics.id[w]}]
                  /\ pc' = [pc EXCEPT ![w] = "unlock"]
    /\ UNCHANGED <<held, offmetrics>>

\* `t = Totals(pages=..., bytes=..., errors=..., fetch_ms_sum=...)` of snapshot:
\* a new object with the values of the totals.
MetricsCopy(w) ==
    /\ pc[w] = "copy"
    /\ metrics' = [metrics EXCEPT !.snap[w] = metrics.totals,
                                  !.snap_applied[w] = metrics.applied]
    /\ pc' = [pc EXCEPT ![w] = "unlock"]
    /\ UNCHANGED <<held, offmetrics>>

\* The block ends, and the call returns.
MetricsRelease(w) ==
    /\ pc[w] = "unlock"
    /\ held' = [held EXCEPT ![w] = {}]
    /\ pc' = [pc EXCEPT ![w] = "idle"]
    /\ UNCHANGED <<metrics, offmetrics>>

MetricsNext ==
    \/ \E w \in Workers : \E fn \in {"record_fetch", "snapshot"} :
          \E ok \in BOOLEAN : \E b \in BytesRead : MetricsCall(w, fn, ok, b)
    \/ \E w \in Workers : MetricsAcquire(w)
    \/ \E w \in Workers : MetricsUpdate(w)
    \/ \E w \in Workers : MetricsCopy(w)
    \/ \E w \in Workers : MetricsRelease(w)

MetricsSpec == MetricsInit /\ [][MetricsNext]_vars

\* --------------------------------------------------------------- properties

\* The lines of the output file of the current run; those it held when the run
\* started, and those the run wrote.
Lines == [i \in DOMAIN files[config.output_path].lines |->
             files[config.output_path].lines[i].url]
OldLines == SubSeq(Lines, 1, lines0)
NewLines == SubSeq(Lines, lines0 + 1, Len(Lines))

Distinct(s) == \A i, j \in DOMAIN s : s[i] = s[j] => i = j

PageUrls == {r[1] : r \in pages}
FrontierUrls == {r[1] : r \in frontier_tbl}

\* C1: with a store, in one run _should_visit returns True at most once for a
\* URL, and no URL is fetched twice.
C1_GateAdmitsOnce ==
    config.sqlite_path => \A u \in URLs : admits[u] <= 1 /\ fetches[u] <= 1

\* C2: with a store, when a run is killed and the next one resumes, no URL has
\* more than one record in the JSONL output across the two runs.  (Stated for
\* the runs that wrote no URL twice by themselves: the duplicate is one record
\* from before the kill and one from after.)
C2_NoDuplicateAcrossKill ==
    (allStore /\ prevEnd = "killed" /\ resumed
        /\ Distinct(OldLines) /\ Distinct(NewLines))
    => Distinct(Lines)

\* C3: a URL that was admitted and stored as a page in one run is not admitted
\* in any later run against the same store, whichever path that run takes.
C3_StoredNeverAdmittedAgain ==
    allStore => \A u \in priorStored : admits[u] = 0

\* C4: in a run on the resume path a URL that has a pages row at startup is not
\* admitted, fetched or written again; and after runs that all returned, the
\* later ones resuming, the JSONL output holds each URL once.
C4_ResumeSkipsStoredPages ==
    /\ (allStore /\ resumed) =>
          \A u \in pages0 :
             admits[u] = 0 /\ fetches[u] = 0 /\ u \notin Range(NewLines)
    /\ (allStore /\ clean /\ phase = "returned") =>
          /\ Distinct(Lines)
          /\ PageUrls \subseteq Range(Lines)

\* C5: with a store, the gate rejects a URL only when the domain check fails or
\* the URL has a pages row; a Bloom positive alone never rejects.
C5_BloomPositiveNeverSkips ==
    \A w \in Workers :
       (config.sqlite_path /\ outcome[w] = "rejected") =>
          \/ \A i \in DOMAIN config.allowed_domains :
                /\ netloc(cur[w][1]) # config.allowed_domains[i]
                /\ ~EndsWithDot(netloc(cur[w][1]), config.allowed_domains[i])
          \/ cur[w][1] \in PageUrls

\* A worker is about to fetch a URL that the Bloom filter reported present
\* though it was never added (not admitted before in this run, no pages row at
\* startup) and that has no pages row.
C5_Witness ==
    \E w \in Workers :
       /\ config.sqlite_path /\ pc[w] = "fetch" /\ hit[w]
       /\ admits[cur[w][1]] = 1
       /\ cur[w][1] \notin pages0 \cup PageUrls

\* C6: the number of pages counted in a run never exceeds max_pages.
C6_PageCap == pages_crawled <= config.max_pages

\* C7: when run() has returned, the frontier is empty or the page count equals
\* max_pages.
C7_Termination ==
    phase = "returned" => (frontier = <<>> \/ pages_crawled = config.max_pages)

\* C8: a URL fetched in this run never has a pages row and a frontier row at
\* once: its page insertion and its frontier deletion are one transition.
C8_SaveAndDequeueAtomic ==
    \A u \in URLs :
       (config.sqlite_path /\ fetches[u] > 0 /\ u \in PageUrls) => u \notin FrontierUrls

\* C9: with a store, when an iteration ends robots-disallowed, fetch-failed or
\* page-saved, its URL has no frontier row; after the first two it has no pages
\* row and after the third exactly one.
C9_OutcomeLeavesNoFrontierRow ==
    [][\A w \in Workers :
          (phase' = "running" /\ config.sqlite_path
              /\ pc[w] # "loop" /\ pc'[w] = "loop"
              /\ outcome'[w] \in {"disallowed", "failed", "stored"})
          => /\ cur[w][1] \notin {r[1] : r \in frontier_tbl'}
             /\ Cardinality({r \in pages' : r[1] = cur[w][1]})
                   = IF outcome'[w] = "stored" THEN 1 ELSE 0
      ]_vars

\* C10: with a store, a URL the gate rejected has no row in the frontier table.
C10_RejectedIsDequeued ==
    config.sqlite_path =>
       \A u \in URLs : <<u, "rejected">> \in ended => u \notin FrontierUrls

\* How often URL u is on the in-memory frontier q.
Queued(q, u) == Cardinality({i \in DOMAIN q : q[i][1] = u})

\* C11: a URL whose fetch failed in this run is never put on the frontier
\* again and never fetched again in the run, with or without a store.
C11_FailedIsTerminal ==
    [][\A u \in URLs :
          (phase = "running" /\ phase' = "running" /\ <<u, "failed">> \in ended)
          => /\ Queued(frontier', u) <= Queued(frontier, u)
             /\ fetches'[u] = fetches[u]
      ]_vars

\* C12: no entry of the frontier has a depth above max_depth of the running
\* configuration, however it was put there (start URL, discovered link, row
\* restored from the store), and no worker fetches a URL at such a depth.
C12_DepthBound ==
    /\ \A i \in DOMAIN frontier : frontier[i][2] <= config.max_depth
    /\ \A w \in Workers :
          (phase = "running" /\ pc[w] \notin {"loop", "get", "done"})
          => cur[w][2] <= config.max_depth

\* C13: with delay_seconds > 0 the start times of any two fetches of the same
\* host are at least delay_seconds apart.
C13_FetchesSpaced ==
    \A h \in Netlocs : \A i, j \in DOMAIN fetch_times[h] :
       i < j => fetch_times[h][j] - fetch_times[h][i] >= DelaySeconds

\* next_allowed of a host as the wait_turn calls for that host alone determine
\* it, from the times of those calls.
RECURSIVE NextAllowedBy(_)
NextAllowedBy(calls) ==
    IF calls = <<>> THEN 0
    ELSE Max(NextAllowedBy(SubSeq(calls, 1, Len(calls) - 1)), calls[Len(calls)])
            + DelaySeconds

\* C14: a call wait_turn(h) leaves the next_allowed entry of every other host
\* unchanged, and the sleep it gets is determined by the earlier calls for h
\* alone.
C14_HostsIndependent ==
    [][\A w \in Workers :
          (pc[w] = "turn" /\ pc'[w] # "turn")
          => LET h == netloc(cur'[w][1])
             IN  /\ \A g \in Netlocs \ {h} : host_next_time'[g] = host_next_time[g]
                 /\ sleep_until'[w] - now
                       = Max(NextAllowedBy(rate_calls[h]) - now, 0)
                 /\ host_next_time'[h] = NextAllowedBy(rate_calls'[h])
      ]_vars

\* A worker was given no sleep for its host while another host, called
\* before, has its next allowed time in the future; and another worker is
\* sleeping for a host called before.
C14_Witness ==
    /\ \E w \in Workers : \E g \in Netlocs :
          /\ pc[w] = "http"
          /\ g # netloc(cur[w][1])
          /\ rate_calls[netloc(cur[w][1])] = <<now>>
          /\ rate_calls[g] # <<>>
          /\ host_next_time[g] > now
    /\ \E w \in Workers : pc[w] = "sleep" /\ sleep_until[w] > now

\* C15: a run on the resume path that finds rows in the frontier table starts
\* with exactly those rows on its in-memory frontier and adds no start URL to
\* either; one that finds none starts with the normalized start URLs at depth
\* 0, in memory and in the table.
C15_RestoredSupersedesStarts ==
    [][(/\ run' = run + 1
        /\ config'.sqlite_path
        /\ (config'.resume \/ files[config'.output_path].exists))
       => LET starts == SelectSeq(config'.start_urls, LAMBDA u : u # "")
          IN  IF frontier_tbl # {}
              THEN /\ Len(frontier') = Cardinality(frontier_tbl)
                   /\ {frontier'[i] : i \in DOMAIN frontier'} = frontier_tbl
                   /\ frontier_tbl' = frontier_tbl
              ELSE /\ frontier' = [i \in DOMAIN starts |-> <<starts[i], 0>>]
                   /\ frontier_tbl' = {<<starts[i], 0>> : i \in DOMAIN starts}
      ]_vars

\* A resumed run has just been constructed from a non-empty frontier table, and
\* one of its start URLs is neither queued nor in the table.
C15_Witness ==
    /\ run > 1 /\ resumed /\ phase = "running"
    /\ \A w \in Workers : cur[w] = NoEntry /\ pc[w] \in {"loop", "done"}
    /\ pages_crawled = 0
    /\ frontier # <<>>
    /\ {frontier[i] : i \in DOMAIN frontier} = frontier_tbl
    /\ \E i \in DOMAIN config.start_urls :
          config.start_urls[i] \notin {r[1] : r \in frontier_tbl}

\* A run with a store has returned with the page cap reached.
CappedReturn ==
    phase = "returned" /\ config.sqlite_path /\ pages_crawled >= config.max_pages

\* A run resumed after such a run has returned below its own cap.
ResumedBelowCap ==
    prevCapped /\ resumed /\ phase = "returned" /\ pages_crawled < config.max_pages

C17_OneRowLastSaveWins ==
    [][/\ \A r1, r2 \in pages' : r1[1] = r2[1] => r1 = r2
       /\ \A u \in URLs :
             /\ last_save'[u] # -1 => <<u, last_save'[u]>> \in pages'
             /\ last_save'[u] = -1 => u \notin {r[1] : r \in pages'}
       /\ {r[1] : r \in pages} \subseteq {r[1] : r \in pages'}
      ]_vars

\* A save_page has replaced the row of its URL, which had another depth, and
\* the rows of the other URLs are still there.
C17_Witness ==
    /\ call.op = "save_page"
    /\ call.old # -1 /\ call.old # call.depth
    /\ <<call.url, call.depth>> \in pages
    /\ \E r \in pages : r[1] # call.url

\* C18: with a store, when run() has returned the JSONL file has as many lines
\* written in the run as save_page was called in the run.
C18_LinesEqualSaves ==
    (config.sqlite_path /\ phase = "returned") => Len(NewLines) = saves

\* A resumed run with a store, appending to the lines of the run before it, has
\* returned after it saved pages.
C18_Witness ==
    /\ config.sqlite_path /\ phase = "returned"
    /\ lines0 > 0 /\ saves > 0 /\ Len(NewLines) > 0

\* C19: after any add and add_batch calls, contains is true of every item that
\* was added, contains_batch answers true for every added item of its batch,
\* and a contains call on an added item has returned true.
C19_NoFalseNegative ==
    /\ \A x \in added : bloom_contains(bloom, x)
    /\ \A items \in Batches : \A i \in DOMAIN items :
          items[i] \in added => bloom_contains_batch(bloom, items)[i]
    /\ (call.op = "contains" /\ call.url \in added) => call.ret

\* Items were added by add or add_batch, contains was asked about one of them,
\* and the filter answers true for c, which was never added (a and c share
\* their probe positions): the filter is approximate, and only on that side.
C19_Witness ==
    /\ {"a", "b"} \subseteq added /\ "c" \notin added
    /\ call.op = "contains" /\ call.url \in added
    /\ bloom_contains(bloom, "c")
    /\ ~bloom_contains(bloom, "x")

\* C20: mark_enqueued(url, depth) returns true iff it inserted a row; it
\* inserts <<url, depth>> only when the URL has no frontier row; when the URL
\* has one it returns false and the table, the depth of that row included, is
\* as before.  (Calls are serialized by the store lock: of the callers for one
\* URL the first inserts, the others find the row.)
C20_MarkEnqueuedOnce ==
    [][call'.op = "mark_enqueued"
       => LET u == call'.url
              had == \E r \in frontier_tbl : r[1] = u
          IN  /\ call'.ret <=> frontier_tbl' # frontier_tbl
              /\ had => ~call'.ret /\ frontier_tbl' = frontier_tbl
              /\ ~had => frontier_tbl' = frontier_tbl \cup {<<u, call'.depth>>}
              /\ \A r1, r2 \in frontier_tbl' : r1[1] = r2[1] => r1 = r2
      ]_vars

\* A mark_enqueued found a row of another depth for its URL, returned false
\* and the row still has its depth.
C20_Witness ==
    /\ call.op = "mark_enqueued" /\ ~call.ret
    /\ call.old # -1 /\ call.old # call.depth
    /\ <<call.url, call.old>> \in frontier_tbl

\* C22: with a store, a URL is put on the in-memory frontier only by a caller
\* whose mark_enqueued for it returned true, that is, inserted its frontier
\* row; this holds for the links a worker discovers and for the start URLs of
\* a construction.  (Rows restored by load_frontier are put without a call of
\* mark_enqueued and are not meant.)
C22_FalseSuppressesPut ==
    [][\A u \in URLs :
          (/\ config'.sqlite_path
           /\ phase' = "running"
           /\ Queued(frontier', u) > Queued(frontier, u)
           /\ ~(run' # run /\ resumed' /\ frontier_tbl # {}))
          => /\ u \notin {r[1] : r \in frontier_tbl}
             /\ u \in {r[1] : r \in frontier_tbl'}
      ]_vars

\* C26: without a store, in one run _should_visit returns True at most once
\* for a URL and no URL is fetched twice, however many workers there are and
\* however often the URL is on the frontier.
C26_VisitedSetExact ==
    ~config.sqlite_path => \A u \in URLs : admits[u] <= 1 /\ fetches[u] <= 1

\* Without a store, b was put on the frontier twice: it was fetched once and
\* its second entry was rejected by the gate.
C26_Witness ==
    /\ ~config.sqlite_path
    /\ <<"b", "rejected">> \in ended
    /\ admits["b"] = 1 /\ fetches["b"] = 1

\* C27: with a store, when a worker puts a discovered link on the in-memory
\* frontier the link has no pages row and had no frontier row, so a link two
\* workers discover is put once.
C27_EnqueuedLinkIsNew ==
    [][\A u \in URLs :
          (/\ config.sqlite_path /\ phase' = "running" /\ run' = run
           /\ Queued(frontier', u) > Queued(frontier, u))
          => /\ u \notin {r[1] : r \in pages}
             /\ u \notin {r[1] : r \in frontier_tbl}
      ]_vars

\* C28: a worker about to call http.fetch has, in this iteration, got True
\* from robots.can_fetch when robots.txt is obeyed, got True from
\* _should_visit, whose URL passes the domain check, and called wait_turn with
\* the netloc of the URL; whether the entry was a start URL, a restored row or
\* a discovered link.
C28_FetchedWasChecked ==
    \A w \in Workers :
       pc[w] = "fetch" =>
          /\ config.obey_robots_txt => passed[w].robots
          /\ is_allowed_domain(url_of(w), config.allowed_domains)
          /\ passed[w].gate
          /\ passed[w].host = netloc(url_of(w))

\* With robots.txt obeyed and its rules cached, a worker is about to fetch a
\* discovered link while the rules disallow another URL of the host.
C28_Witness ==
    \E w \in Workers :
       /\ pc[w] = "fetch" /\ config.obey_robots_txt
       /\ depth_of(w) > 0
       /\ robots_cache[netloc(url_of(w))] = "rules"
       /\ \E u \in RobotsDisallow : netloc(u) = netloc(url_of(w))

\* C30: under fair scheduling a run that is running ends, by run() returning
\* unless it is killed, and a worker that has not returned can always take a
\* step.
C30_RunReturns ==
    /\ (phase = "running") ~> (phase # "running")
    /\ [](\A w \in Workers :
             (phase = "running" /\ pc[w] # "done") => ENABLED WorkerStep(w))
    /\ []((phase = "running" /\ \A w \in Workers : pc[w] = "done")
             => ENABLED Return)

\* run() has returned with entries left on the frontier: one worker returned on
\* the cap at its re-check, the other on the cap or on an empty queue.
C30_Witness ==
    /\ phase = "returned"
    /\ frontier # <<>>
    /\ \E w \in Workers : outcome[w] = "capped"
    /\ \E w \in Workers : outcome[w] # "capped"

\* C23: a worker whose JSONL write failed has returned without save_page and
\* without counting the page; no other worker is stopped by it (each can step
\* until it returns at the head of its loop, at the re-check or on an empty
\* queue), and the run ends by run() returning.
C23_WriteFailureEndsOneWorker ==
    /\ [](\A w \in Workers :
             outcome[w] = "crashed" => pc[w] = "done" /\ "save_page" \notin ops[w])
    /\ [][\A w \in Workers :
             (outcome[w] # "crashed" /\ outcome'[w] = "crashed")
             => pages' = pages /\ pages_crawled' = pages_crawled]_vars
    /\ [](\A w \in Workers :
             (phase = "running" /\ pc[w] # "done") => ENABLED WorkerStep(w))
    /\ [][\A w \in Workers :
             (/\ phase' = "running" /\ run' = run
              /\ pc[w] # "done" /\ pc'[w] = "done" /\ outcome'[w] # "crashed")
             => pc[w] \in {"loop", "get", "recheck"}]_vars
    /\ (phase = "running") ~> (phase # "running")

\* run() has returned after the write of one worker failed: its URL has no
\* pages row, and the other worker has written and counted pages.
C23_Witness ==
    /\ phase = "returned"
    /\ \E w \in Workers :
          /\ outcome[w] = "crashed"
          /\ url_of(w) \notin PageUrls
          /\ url_of(w) \notin Range(NewLines)
    /\ pages_crawled > 0 /\ Len(NewLines) = pages_crawled

\* C25: is_allowed_domain(url, allowed) is true when allowed is empty, and
\* otherwise exactly when the lowercased host name of the URL is an allowed
\* domain or ends with "." and an allowed domain, whether or not the URL has
\* userinfo or a port.
C25_AllowedIffHostMatches ==
    probe.fn = "is_allowed_domain" =>
       (probe.ret <=>
           \/ probe.allowed = <<>>
           \/ \E i \in DOMAIN probe.allowed :
                 \/ urlparse_hostname(probe.url) = probe.allowed[i]
                 \/ EndsWithDot(urlparse_hostname(probe.url), probe.allowed[i]))

\* C24: a JsonlWriter opened with append false starts with an empty file, one
\* opened with append true with the lines the file had; whatever threads call
\* write, the file is those lines followed by one line per write that
\* returned, in the order the writes took the lock, one thread in the lock at
\* a time; and once closed, further close calls leave file and handle as the
\* first close left them.
C24_SinkKeepsWholeLines ==
    /\ sink.start = IF sink.append THEN sink.prev ELSE <<>>
    /\ files[sink.path].lines = sink.start \o sink.written
    /\ Cardinality({t \in Workers : "sink" \in held[t]}) <= 1
    /\ sink.closes >= 1 =>
          sink.closed /\ files[sink.path].lines = sink.at_close

\* A writer opened with append on a file of two lines: both threads have
\* written a line, and close was called twice.
C24_Witness ==
    /\ sink.append /\ Len(sink.prev) = 2
    /\ sink.by = Workers /\ Len(sink.written) = 2
    /\ sink.closes = 2
    /\ \A t \in Workers : pc[t] = "idle"

\* C21: no thread, be it the constructing thread, a worker or the StatsLogger,
\* holds two of the locks (visited, pages, store, rate, sink, metrics) at once.
C21_OneLockAtATime ==
    \A t \in Threads : Cardinality(held[t]) <= 1

\* Three threads hold a lock each: a worker in the Bloom fast path, a worker in
\* a store call, the StatsLogger in Metrics.snapshot.
C21_Witness ==
    /\ held[1] = {"visited"}
    /\ held[2] = {"store"}
    /\ held[3] = {"metrics"}

\* C29: a worker in store.has_page or in http.fetch does not hold the visited
\* lock, a worker sleeping in wait_turn does not hold the rate-limiter lock,
\* and while one worker sleeps another can enter the locked block of wait_turn.
C29_NoLockAcrossIO ==
    /\ \A t \in Workers :
          pc[t] \in {"has_page", "has_page_in", "http"} => "visited" \notin held[t]
    /\ \A t \in Workers : pc[t] = "sleep" => "rate" \notin held[t]
    /\ \A t, v \in Workers :
          (pc[t] = "sleep" /\ pc[v] = "turn") => ENABLED LockAcquire(v)

\* One worker sleeps in wait_turn while the other is inside the locked block
\* of wait_turn.
C29_Witness ==
    \E t, v \in Workers :
       /\ pc[t] = "sleep"
       /\ pc[v] = "turn_in" /\ held[v] = {"rate"}

\* C35: with N workers the page count never exceeds max_pages + N - 1: a worker
\* tests the cap before it fetches and counts the page after, so each worker
\* adds at most one page past the cap.
C35_OvershootBelowWorkers ==
    pages_crawled <= config.max_pages + config.concurrency - 1

\* Two workers, and the count is one past the cap.
C35_Witness ==
    /\ config.concurrency = 2
    /\ pages_crawled = config.max_pages + 1
    /\ phase = "returned"

\* C32: a response that is not non-empty HTML gives a record with empty title,
\* description and text and num_links = 0, none of its links is enqueued or
\* added to the links table, and the iteration still counts one page.
C32_NonHtmlIsAnEmptyPage ==
    /\ [](\A i \in DOMAIN files[config.output_path].lines :
             LET r == files[config.output_path].lines[i]
             IN  ~SiteIsHtml(r.url) =>
                    /\ r.title = "" /\ r.description = "" /\ r.text = ""
                    /\ r.num_links = 0)
    /\ [](\A w \in Workers :
             (url_of(w) # "" /\ ~SiteIsHtml(url_of(w))) =>
                 /\ todo[w] = <<>>
                 /\ pc[w] \notin {"links", "mark", "add_links"})
    /\ [](\A r \in links_tbl : SiteIsHtml(r[1]))
    /\ [][\A w \in Workers :
             (/\ ~SiteIsHtml(url_of(w))
              /\ pc[w] \in {"write", "save", "deq", "incr"}
              /\ pc'[w] = "loop") =>
                 /\ outcome'[w] = "stored"
                 /\ pages_crawled' = pages_crawled + 1]_vars

\* With a store, the PDF b was fetched at a depth below max_depth, written as
\* an empty record and counted.
C32_Witness ==
    /\ config.sqlite_path
    /\ <<"b", "stored">> \in ended
    /\ pages_crawled >= 1
    /\ \E i \in DOMAIN files[config.output_path].lines :
          files[config.output_path].lines[i] = record_of("b")
    /\ \E r \in pages : r[1] = "b" /\ r[2] < config.max_depth

\* C33: with delay_seconds > 0 a call of wait_turn sleeps
\* max(0, next_allowed - now) and stores max(next_allowed, now) + delay; the
\* first call for a host does not sleep, a call at the same time as that first
\* call sleeps exactly delay, and the release time (now + sleep) of a call is at
\* least delay after the release time of the call before it for the same host;
\* with delay_seconds <= 0 a call does not sleep and leaves the map as it is.
C33_WaitTurnSchedule ==
    /\ [][\A w \in Workers :
             (pc[w] = "turn" /\ pc'[w] # "turn")
             => LET h == netloc(cur'[w][1])
                    next_allowed == host_next_time[h]
                    sleep_for == sleep_until'[w] - now
                    calls == rate_calls[h]
                IN  /\ sleep_for = Max(0, next_allowed - now)
                    /\ host_next_time'[h] = Max(next_allowed, now) + DelaySeconds
                    /\ (pc'[w] = "sleep") = (sleep_for > 0)
                    /\ calls = <<>> => sleep_for = 0
                    /\ calls = <<now>> => sleep_for = DelaySeconds
                    /\ calls # <<>> =>
                          (now + sleep_for) - (host_next_time[h] - DelaySeconds)
                             >= DelaySeconds
         ]_vars
    /\ [](\A h \in Netlocs : \A d \in {0, -1} :
             wait_turn(host_next_time, now, h, d)
                = [next |-> host_next_time, sleep_for |-> 0])

\* After the clock has advanced, a worker made the second call for a host at
\* the time of the first and sleeps for delay_seconds, and the entry of the
\* host is two delays after that time.
C33_Witness ==
    \E v \in Workers : \E h \in Netlocs :
       /\ Len(rate_calls[h]) = 2
       /\ rate_calls[h][1] = rate_calls[h][2]
       /\ rate_calls[h][1] >= 1
       /\ netloc(cur[v][1]) = h
       /\ pc[v] = "sleep"
       /\ sleep_until[v] = rate_calls[h][2] + DelaySeconds
       /\ host_next_time[h] = rate_calls[h][1] + 2 * DelaySeconds

\* C34: after any sequence of store calls seen_url(u) returns true iff u has a
\* row in pages or in frontier and has_page(u) iff u has a row in pages;
\* dequeue(u) removes the frontier row of u and nothing else (nothing at all
\* when u has none) and leaves pages alone, so a URL that was saved stays seen
\* after its dequeue.
C34_SeenIffStored ==
    [][/\ call'.op = "seen_url" =>
             (call'.ret <=> call'.url \in RowUrls(pages') \cup RowUrls(frontier_tbl'))
       /\ call'.op = "has_page" =>
             (call'.ret <=> call'.url \in RowUrls(pages'))
       /\ call'.op = "dequeue" =>
             /\ frontier_tbl' = {r \in frontier_tbl : r[1] # call'.url}
             /\ call'.old = -1 => frontier_tbl' = frontier_tbl
             /\ pages' = pages
       /\ \A u \in StoreURLs :
             last_save'[u] # -1 =>
                /\ seen_url(pages', frontier_tbl', u)
                /\ has_page(pages', u)
      ]_vars

\* seen_url returned true for a URL that was saved and has no frontier row,
\* while the other URL has a frontier row and no page and is seen as well.
C34_Witness ==
    /\ call.op = "seen_url" /\ call.ret
    /\ last_save[call.url] # -1
    /\ call.url \notin RowUrls(frontier_tbl)
    /\ \E u \in StoreURLs \ {call.url} :
          /\ u \in RowUrls(frontier_tbl) \ RowUrls(pages)
          /\ seen_url(pages, frontier_tbl, u) /\ ~has_page(pages, u)

\* The positions of Crawler.worker at which the worker holds a URL it took from
\* the queue and has neither given up nor dequeued from the store.
HoldingPcs ==
    {"recheck", "robots", "robots_fetch", "robots_deq", "gate", "bloom_init",
     "bloom_check", "has_page", "gate_add", "turn", "fetch", "fail_deq",
     "links", "mark", "add_links", "write", "save", "deq"}

\* The URLs pending in this run.
PendingInRun ==
    {frontier[i][1] : i \in DOMAIN frontier}
       \cup {url_of(w) : w \in {v \in Workers : pc[v] \in HoldingPcs}}

\* C36: with a store, every URL pending in the run (queued in memory, or held
\* by a worker that has not reached an outcome for it) has a row in the
\* frontier table.
C36_PendingIsPersisted ==
    (config.sqlite_path /\ phase = "running") =>
        PendingInRun \subseteq RowUrls(frontier_tbl)

\* C37: in a run robots.txt is requested at most once per origin, and every
\* decision of can_fetch for an origin is taken under the same policy.
C37_RobotsOncePerOrigin ==
    /\ \A n \in Netlocs : Len(fetch_times[n]) <= 1
    /\ \A e1, e2 \in ended : netloc(e1[1]) = netloc(e2[1]) => e1[2] = e2[2]

\* add called on each item of a batch, in order.
RECURSIVE AddEach(_, _)
AddEach(b, items) ==
    IF items = <<>> THEN b ELSE AddEach(bloom_add(b, Head(items)), Tail(items))

\* C38: no call clears a bit; add(x) of an x whose probe positions are all set
\* leaves the bits as they are and n_added grows by one; add_batch(items)
\* leaves the filter (bits and n_added) as add on each item in order would;
\* every probe position lies in 0 .. m-1.
C38_BitsMonotoneBatchAsAdds ==
    /\ [][/\ bloom.bits \subseteq bloom'.bits
          /\ bloom'.n_added >= bloom.n_added
          /\ (call'.op = "add" /\ bloom_contains(bloom, call'.url)) =>
                /\ bloom'.bits = bloom.bits
                /\ bloom'.n_added = bloom.n_added + 1
          /\ call'.op = "add" => bloom' = bloom_add(bloom, call'.url)
          /\ call'.op = "add_batch" => bloom' = AddEach(bloom, probe'.items)
         ]_vars
    /\ [](/\ \A x \in URLs : hash_all(x, bloom.m) \subseteq 0 .. (bloom.m - 1)
          /\ bloom.bits \subseteq 0 .. (bloom.m - 1))

\* A batch holding one item twice was added to a filter in which the probe
\* positions of the item were set already, and counted twice.
C38_Witness ==
    /\ call.op = "add_batch"
    /\ probe.fn = "add_batch"
    /\ Len(probe.items) = 2 /\ probe.items[1] = probe.items[2]
    /\ bloom.n_added = 3
    /\ added = {probe.items[1]}

\* The pages fetched and stored in this run, and the links the worker took
\* from each.
FetchedInRun == {u \in URLs : <<u, "stored">> \in ended}
LinksOf(u) == IF SiteIsHtml(u) THEN Range(SiteLinks(u)) ELSE {}

\* The number of links on a shortest path from the set S (at distance d) to u
\* through pages fetched in this run, -1 when there is no path.
RECURSIVE Hops(_, _, _, _)
Hops(S, seen, d, u) ==
    IF u \in S THEN d
    ELSE IF S = {} THEN -1
    ELSE Hops((UNION {LinksOf(v) : v \in S \cap FetchedInRun}) \ (seen \cup S),
              seen \cup S, d + 1, u)

LinkDistance(u) == Hops(Range(normalize_start(config.start_urls)), {}, 0, u)

\* C39: with one worker the entries leave the frontier in non-decreasing depth
\* order, on the fresh path and on the resume path, and the depth stored with
\* each page fetched in the run is its shortest link distance from a start URL
\* through the pages fetched in the run (stated for the runs that begin with
\* their start URLs, when run() has returned).
C39_SingleWorkerBreadthFirst ==
    /\ [][\A w \in Workers :
             (/\ config.concurrency = 1 /\ run' = run
              /\ pc[w] = "get" /\ pc'[w] = "recheck")
             => cur'[w][2] >= cur[w][2]]_vars
    /\ []((/\ config.concurrency = 1 /\ config.sqlite_path
            /\ ~resumed /\ phase = "returned")
             => \A u \in FetchedInRun : DepthIn(pages, u) = LinkDistance(u))

\* The totals of the record_fetch calls S (indexes of the log): the number of
\* calls, the sum of max(0, bytes_read), the number of calls with ok = false.
RECURSIVE SumOver(_, _)
SumOver(S, field) ==
    IF S = {} THEN 0
    ELSE LET i == CHOOSE j \in S : TRUE
             v == IF field = "bytes"
                  THEN (IF metrics.log[i].bytes_read > 0
                        THEN metrics.log[i].bytes_read ELSE 0)
                  ELSE metrics.log[i].fetch_ms
         IN  v + SumOver(S \ {i}, field)

TotalsOf(S) ==
    [pages |-> Cardinality(S),
     bytes |-> SumOver(S, "bytes"),
     errors |-> Cardinality({i \in S : ~metrics.log[i].ok}),
     fetch_ms_sum |-> SumOver(S, "fetch_ms")]

\* C31: when no record_fetch is in progress the totals are those of all the
\* calls made (pages the number of calls, errors the calls with ok = false,
\* bytes the sum of max(0, bytes_read)); a snapshot holds the totals of the
\* calls that were applied when it was taken, never part of a call, and calls
\* made after it do not change it.
C31_TotalsCountEveryCall ==
    /\ []((\A w \in Workers : pc[w] \notin {"pages", "bytes", "errors", "fetch_ms_sum"})
             => metrics.totals = TotalsOf(metrics.applied))
    /\ []((\A w \in Workers : pc[w] = "idle")
             => /\ metrics.applied = DOMAIN metrics.log
                /\ metrics.totals = TotalsOf(DOMAIN metrics.log))
    /\ [](\A w \in Workers :
             metrics.snap[w] # NoSnapshot =>
                metrics.snap[w] = TotalsOf(metrics.snap_applied[w]))
    /\ [][\A w \in Workers :
             metrics'.snap[w] # metrics.snap[w] => pc[w] = "copy"]_vars

\* A snapshot taken between two calls of record_fetch, one of them failed and
\* with a negative bytes_read: it holds the first call only.
C31_Witness ==
    /\ \A w \in Workers : pc[w] = "idle"
    /\ Len(metrics.log) = 2
    /\ \E i \in DOMAIN metrics.log : ~metrics.log[i].ok /\ metrics.log[i].bytes_read < 0
    /\ \E i \in DOMAIN metrics.log : metrics.log[i].ok /\ metrics.log[i].bytes_read > 0
    /\ metrics.totals.pages = 2
    /\ metrics.totals.errors = 1
    /\ metrics.totals.bytes = 2
    /\ \E w \in Workers : metrics.snap[w].pages = 1

====
